---- MODULE Spec2Model ----
(***************************************************************************)
(* Model of the link-repair scripts fix_all_links.py and update_links.py:  *)
(* the Path Index builders, the two resolvers (find_correct_path,          *)
(* find_target_path), the two document rewriters (fix_links_in_file,       *)
(* update_links_in_file) and the two batch drivers (main).                 *)
(*                                                                         *)
(* Strings.  A Python string is modelled as the sequence of its tokens,    *)
(* where a token is either one punctuation character ("/", ".", "#", "[",  *)
(* "]", "(", ")", ":", " ", the checker's bullet glyph written "BULLET")   *)
(* or a maximal run of other characters (a name such as "csv" or           *)
(* "data-engineering").  Every string operation of the code is translated  *)
(* to the token level: path.endswith('.md') is "the last two tokens are    *)
(* '.' and 'md'", rstrip('./') drops trailing "." and "/" tokens, and so   *)
(* on.  The translation is exact for strings over names none of which has  *)
(* one of the words the code looks for (engineers, analysts, docs, img,    *)
(* http, md, mdanalysts, mdengineers, png, ...) as a proper prefix or      *)
(* suffix; the only other name-prefix pairs are listed in                  *)
(* ProperNamePrefix.                                                       *)
(***************************************************************************)
EXTENDS Integers, Sequences, FiniteSets, TLC

VARIABLES
    script,          \* which script runs: "fix_all_links" or "update_links"
    pc,              \* position of the script / of the operation under study
    tree,            \* the .mdx documents under data-engineering/ then
                     \* data-analytics/, extension stripped, in rglob order
    file_index,      \* the Path Index: lookup key -> list of candidates
    broken_link,     \* the reference last handed to the resolver
    is_engineer,     \* find_target_path's is_engineer argument
    correct_path,    \* what the resolver returned (None when unresolved)
    content,         \* the text the document under rewriting holds
    prev_content,    \* the text it held before the latest rewriter run
    broken_links,    \* the broken links handed to fix_links_in_file
    mappings,        \* update_links' dict of old path -> new path
    returned,        \* (count, replacements) the latest rewriter run returned
    written,         \* whether the latest rewriter run wrote the file
    broken_links_output,  \* what run_mint_broken_links returned, as lines
    disk,            \* per document of the tree: its text and what I/O allows
    broken_links_by_file, \* the parsed report: (file, links) in insertion order
    todo,            \* what the loop over the documents has still to visit
    files_updated,   \* main's counter of the files it updated
    total_fixed,     \* main's counter of the links it replaced
    remaining        \* the broken links the verification run counted

resolverVars == <<broken_link, is_engineer, correct_path>>
rewriterVars == <<content, prev_content, broken_links, mappings, returned, written>>
batchVars == <<broken_links_output, disk, broken_links_by_file, todo,
               files_updated, total_fixed, remaining>>
vars == <<script, pc, tree, file_index, resolverVars, rewriterVars, batchVars>>

----------------------------------------------------------------------------
(* Bounds of the model *)

\* most documents in the tree
MaxDocs == 3

\* most pieces (links, plain words) a document under rewriting is made of
MaxPieces == 2

\* most broken links handed to fix_links_in_file for one document
MaxLinks == 2

\* most documents the link checker's report lists
MaxReportFiles == 2

\* most lines of a report given to the parsers on their own
MaxReportLines == 4

----------------------------------------------------------------------------
(* Token strings *)

Punct == {"/", ".", "#", "[", "]", "(", ")", ":", " ", "BULLET"}

\* pairs <<a, b>> of names with a a proper character prefix of b
ProperNamePrefix == {<<"data", "data-engineering">>, <<"data", "data-analytics">>}

\* one token b starts with the characters of token a
TokStartsWith(b, a) == a = b \/ <<a, b>> \in ProperNamePrefix

\* str.startswith(p) where p ends at a token boundary of s
StartsWith(s, p) ==
    Len(p) <= Len(s) /\ SubSeq(s, 1, Len(p)) = p

\* str.startswith(p) for an arbitrary p: p's last token may stop inside a name
StartsWithChars(s, p) ==
    /\ Len(p) <= Len(s)
    /\ IF p = <<>> THEN TRUE
       ELSE /\ SubSeq(s, 1, Len(p) - 1) = SubSeq(p, 1, Len(p) - 1)
            /\ TokStartsWith(s[Len(p)], p[Len(p)])

\* str.endswith(p), p starting with a punctuation token
EndsWith(s, p) ==
    Len(p) <= Len(s) /\ SubSeq(s, Len(s) - Len(p) + 1, Len(s)) = p

\* p in s (substring), p starting and ending at token boundaries
Contains(s, p) ==
    \E i \in 1..(Len(s) - Len(p) + 1) : SubSeq(s, i, i + Len(p) - 1) = p

\* str.lstrip(chars), chars a set of punctuation tokens
RECURSIVE LStrip(_, _)
LStrip(s, chars) ==
    IF s # <<>> /\ Head(s) \in chars THEN LStrip(Tail(s), chars) ELSE s

\* str.rstrip(chars)
RECURSIVE RStrip(_, _)
RStrip(s, chars) ==
    IF s # <<>> /\ s[Len(s)] \in chars
    THEN RStrip(SubSeq(s, 1, Len(s) - 1), chars)
    ELSE s

\* str.strip(): leading and trailing blanks removed
Strip(s) == RStrip(LStrip(s, {" "}), {" "})

\* str.replace(p, ''): every occurrence of p removed, left to right
RECURSIVE RemoveAll(_, _)
RemoveAll(s, p) ==
    IF s = <<>> THEN <<>>
    ELSE IF StartsWith(s, p) THEN RemoveAll(SubSeq(s, Len(p) + 1, Len(s)), p)
    ELSE <<Head(s)>> \o RemoveAll(Tail(s), p)

\* index of the first token equal to c at or after position from, 0 if none
RECURSIVE IndexFrom(_, _, _)
IndexFrom(s, c, from) ==
    IF from > Len(s) THEN 0
    ELSE IF s[from] = c THEN from
    ELSE IndexFrom(s, c, from + 1)

\* str.split(sep): the segments between the separators (never an empty list)
RECURSIVE Split(_, _)
Split(s, sep) ==
    LET i == IndexFrom(s, sep, 1)
    IN  IF i = 0 THEN <<s>>
        ELSE <<SubSeq(s, 1, i - 1)>> \o Split(SubSeq(s, i + 1, Len(s)), sep)

\* sep.join(parts)
RECURSIVE Join(_, _)
Join(parts, sep) ==
    IF parts = <<>> THEN <<>>
    ELSE IF Len(parts) = 1 THEN parts[1]
    ELSE parts[1] \o <<sep>> \o Join(Tail(parts), sep)

\* parts[-i:] for 1 <= i <= len(parts)
LastN(parts, i) == SubSeq(parts, Len(parts) - i + 1, Len(parts))

\* Python's None; every path the resolvers return starts with "/"
None == <<"None">>

\* Python truthiness of an Optional[str]
Truthy(v) == v # None /\ v # <<>>

----------------------------------------------------------------------------
(* The document tree *)

Scripts == {"fix_all_links", "update_links"}

DataEngineering == "data-engineering"
DataAnalytics == "data-analytics"

\* documents that may exist under data-engineering/
EngDocs == {
    <<DataEngineering, "/", "x", "/", "csv">>,
    <<DataEngineering, "/", "gems", "/", "transform", "/", "filter">>,
    <<DataEngineering, "/", "aaa", "/", "filter">> }

\* documents that may exist under data-analytics/
AnaDocs == {
    <<DataAnalytics, "/", "y", "/", "csv">>,
    <<DataAnalytics, "/", "prepare", "/", "filter">> }

\* the sequences of length n of distinct elements of S
RECURSIVE Arrangements(_, _)
Arrangements(S, n) ==
    IF n = 0 THEN {<<>>}
    ELSE UNION {{<<d>> \o a : a \in Arrangements(S \ {d}, n - 1)} : d \in S}

ArrangementsUpTo(S, n) == UNION {Arrangements(S, k) : k \in 0..n}

\* the outcomes of the two rglob walks: the data-engineering documents in
\* any order, then the data-analytics documents in any order
Trees ==
    {t \in {e \o a : e \in ArrangementsUpTo(EngDocs, MaxDocs),
                     a \in ArrangementsUpTo(AnaDocs, MaxDocs)} :
        Len(t) <= MaxDocs}

----------------------------------------------------------------------------
(* Path Index Builder *)

\* file_index[key] = [doc]: the assignment that forgets the documents
\* registered under key before
AddEntryOverwriting(idx, key, doc) ==
    IF key \in DOMAIN idx
    THEN [idx EXCEPT ![key] = <<doc>>]
    ELSE idx @@ (key :> <<doc>>)

\* file_index[key].append(doc), on a defaultdict(list) or after the
\* "if key not in file_index" initialisation
AddEntry(idx, key, doc) ==
    IF key \in DOMAIN idx
    THEN [idx EXCEPT ![key] = Append(@, doc)]
    ELSE idx @@ (key :> <<doc>>)

\* for i in range(len(path_parts)): file_index['/'.join(path_parts[i:])].append(path_str),
\* from i (counted from 1) on
RECURSIVE AddPartials(_, _, _, _)
AddPartials(idx, path_parts, i, doc) ==
    IF i > Len(path_parts) THEN idx
    ELSE AddPartials(
            AddEntry(idx, Join(SubSeq(path_parts, i, Len(path_parts)), "/"), doc),
            path_parts, i + 1, doc)

\* the body of the loop when the index has no filename keys: a document is
\* indexed by its full path and by the trailing parts of two segments or more
RegisterFalWithoutFilename(idx, path_str) ==
    LET path_parts == Split(path_str, "/")
        byPath == AddPartials(AddEntry(idx, path_str, path_str), path_parts, 1,
                              path_str)
    IN  [key \in DOMAIN byPath \ {path_parts[Len(path_parts)]} |-> byPath[key]]

\* the body of fix_all_links.build_file_index's loop for one document:
\* index by full path, by filename, by every trailing part of the path
RegisterFal(idx, path_str) ==
    LET path_parts == Split(path_str, "/")
        byPath == AddEntry(idx, path_str, path_str)
        byName == AddEntry(byPath, path_parts[Len(path_parts)], path_str)
    IN  AddPartials(byName, path_parts, 1, path_str)

\* the body of update_links.build_file_index's loop for one document:
\* index by filename, then by every trailing part of the path
RegisterUl(idx, path_str) ==
    LET path_parts == Split(path_str, "/")
        byName == AddEntry(idx, path_parts[Len(path_parts)], path_str)
    IN  AddPartials(byName, path_parts, 1, path_str)

\* fix_all_links.build_file_index over the documents in discovery order
RECURSIVE build_file_index_fal(_, _)
build_file_index_fal(docs, idx) ==
    IF docs = <<>> THEN idx
    ELSE build_file_index_fal(Tail(docs), RegisterFal(idx, Head(docs)))

\* update_links.build_file_index over the documents in discovery order
RECURSIVE build_file_index_ul(_, _)
build_file_index_ul(docs, idx) ==
    IF docs = <<>> THEN idx
    ELSE build_file_index_ul(Tail(docs), RegisterUl(idx, Head(docs)))

\* the empty dict
EmptyDict == <<>>

----------------------------------------------------------------------------
(* Link Resolver of fix_all_links.py *)

\* least element of a set of positions, 0 for the empty set: the position
\* at which a "for candidate in candidates: if ...: return" loop returns
FirstOf(S) == IF S = {} THEN 0 ELSE CHOOSE i \in S : \A j \in S : i <= j

\* the pipeline without lines 86-90: .mdanalysts and .mdengineers are kept
StripMalformedNever(path) == path

\* lines 84-97: the normalization pipeline
StripMalformed(path) ==
    IF EndsWith(path, <<".", "mdanalysts">>)
    THEN RemoveAll(path, <<".", "mdanalysts">>)
    ELSE IF EndsWith(path, <<".", "mdengineers">>)
    THEN RemoveAll(path, <<".", "mdengineers">>)
    ELSE path

StripMd(path) ==
    IF EndsWith(path, <<".", "md">>) THEN SubSeq(path, 1, Len(path) - 2) ELSE path

Normalize(broken_path) ==
    RStrip(StripMd(StripMalformed(LStrip(broken_path, {"/"}))), {".", "/"})

\* the filename rule without the preference for the reference's own base
\* directory: always the first candidate
FilenameRuleFirstOnly(path_parts, idx) ==
    LET filename == path_parts[Len(path_parts)]
    IN  IF filename \notin DOMAIN idx THEN None
        ELSE <<"/">> \o idx[filename][1]

\* lines 103-113: the filename rule; None when the filename is no key
FilenameRule(path_parts, idx) ==
    LET filename == path_parts[Len(path_parts)]
    IN  IF filename \notin DOMAIN idx THEN None
        ELSE LET candidates == idx[filename]
                 base_dir == IF Len(path_parts) > 1 THEN path_parts[1] ELSE <<>>
                 hit == IF base_dir = <<>> THEN 0
                        ELSE FirstOf({i \in 1..Len(candidates) :
                                        StartsWithChars(candidates[i], base_dir)})
             IN  IF hit > 0 THEN <<"/">> \o candidates[hit]
                 ELSE <<"/">> \o candidates[1]

\* lines 116-119: the exact path rule
ExactRule(path, idx) ==
    IF path \in DOMAIN idx THEN <<"/">> \o idx[path][1] ELSE None

\* lines 122-132: the suffix rule, trying the last i segments, then i-1, ...
RECURSIVE SuffixRule(_, _, _)
SuffixRule(path_parts, i, idx) ==
    IF i < 1 THEN None
    ELSE LET partial == Join(LastN(path_parts, i), "/")
         IN  IF partial \in DOMAIN idx
             THEN LET candidates == idx[partial]
                      base_dir == path_parts[1]
                      hit == IF base_dir = <<>> THEN 0
                             ELSE FirstOf({k \in 1..Len(candidates) :
                                        StartsWithChars(candidates[k], base_dir)})
                  IN  IF hit > 0 THEN <<"/">> \o candidates[hit]
                      ELSE <<"/">> \o candidates[1]
             ELSE SuffixRule(path_parts, i - 1, idx)

\* which rule of find_correct_path produces the result
find_correct_rule(broken_path, idx) ==
    LET path == Normalize(broken_path)
        path_parts == Split(path, "/")
    IN  IF FilenameRule(path_parts, idx) # None THEN "filename"
        ELSE IF ExactRule(path, idx) # None THEN "exact"
        ELSE IF SuffixRule(path_parts, Len(path_parts), idx) # None THEN "suffix"
        ELSE "none"

find_correct_path(broken_path, idx) ==
    LET path == Normalize(broken_path)
        path_parts == Split(path, "/")
        byName == FilenameRule(path_parts, idx)
        byPath == ExactRule(path, idx)
    IN  IF byName # None THEN byName
        ELSE IF byPath # None THEN byPath
        ELSE SuffixRule(path_parts, Len(path_parts), idx)

----------------------------------------------------------------------------
(* Link Resolver of update_links.py *)

\* lines 179-346: the entries of the dict literal common_mappings, in source
\* order, as <<key, value>>; a key written twice keeps its last value
CommonMappingEntries == <<
    <<"dependencies", <<"data-engineering", "/", "extensibility", "/", "dependencies">>>>,
    <<"pipelines", <<"data-engineering", "/", "development", "/", "pipelines", "/", "pipelines">>>>,
    <<"data-sampling", <<"data-engineering", "/", "development", "/", "runs", "/", "data-sampling">>>>,
    <<"execution", <<"data-engineering", "/", "development", "/", "runs", "/", "execution">>>>,
    <<"execution-metrics", <<"data-engineering", "/", "fabrics", "/", "execution-metrics">>>>,
    <<"gems", <<"data-engineering", "/", "gems", "/", "gems">>>>,
    <<"git", <<"data-engineering", "/", "ci-cd", "/", "git", "/", "git">>>>,
    <<"git-workflow", <<"data-engineering", "/", "ci-cd", "/", "git", "/", "git-workflow">>>>,
    <<"resolve-git-conflicts", <<"data-engineering", "/", "ci-cd", "/", "git", "/", "git-resolve">>>>,
    <<"git-pull-requests", <<"data-engineering", "/", "ci-cd", "/", "git", "/", "git">>>>,
    <<"deployment", <<"data-engineering", "/", "ci-cd", "/", "deployment", "/", "deployment">>>>,
    <<"package-hub", <<"data-engineering", "/", "extensibility", "/", "package-hub", "/", "package-hub">>>>,
    <<"user-defined-functions", <<"data-engineering", "/", "development", "/", "functions", "/", "user-defined-functions">>>>,
    <<"business-rules", <<"data-engineering", "/", "development", "/", "functions", "/", "business-rules-engine", "/", "business-rules-engine">>>>,
    <<"source-target", <<"data-engineering", "/", "gems", "/", "source-target">>>>,
    <<"transform", <<"data-engineering", "/", "gems", "/", "transform">>>>,
    <<"join-split", <<"data-engineering", "/", "gems", "/", "join-split">>>>,
    <<"subgraph", <<"data-engineering", "/", "gems", "/", "subgraph", "/", "subgraph">>>>,
    <<"basic-subgraph", <<"data-engineering", "/", "gems", "/", "subgraph", "/", "basicSubgraph">>>>,
    <<"table-iterator", <<"data-engineering", "/", "gems", "/", "subgraph", "/", "tableIterator">>>>,
    <<"configurations", <<"data-engineering", "/", "development", "/", "pipelines", "/", "configuration">>>>,
    <<"pipeline-settings", <<"data-engineering", "/", "development", "/", "pipelines", "/", "pipeline-settings">>>>,
    <<"delta", <<"data-engineering", "/", "gems", "/", "source-target", "/", "file", "/", "delta">>>>,
    <<"csv", <<"data-engineering", "/", "gems", "/", "source-target", "/", "file", "/", "csv">>>>,
    <<"json", <<"data-engineering", "/", "gems", "/", "source-target", "/", "file", "/", "json">>>>,
    <<"parquet", <<"data-engineering", "/", "gems", "/", "source-target", "/", "file", "/", "parquet">>>>,
    <<"avro", <<"data-engineering", "/", "gems", "/", "source-target", "/", "file", "/", "avro">>>>,
    <<"orc", <<"data-engineering", "/", "gems", "/", "source-target", "/", "file", "/", "orc">>>>,
    <<"text", <<"data-engineering", "/", "gems", "/", "source-target", "/", "file", "/", "text">>>>,
    <<"xlsx", <<"data-engineering", "/", "gems", "/", "source-target", "/", "file", "/", "xlsx">>>>,
    <<"xml", <<"data-engineering", "/", "gems", "/", "source-target", "/", "file", "/", "xml">>>>,
    <<"fixed-format", <<"data-engineering", "/", "gems", "/", "source-target", "/", "file", "/", "fixed-format">>>>,
    <<"seed", <<"data-engineering", "/", "gems", "/", "source-target", "/", "file", "/", "seed">>>>,
    <<"databricks-jobs", <<"data-engineering", "/", "orchestration", "/", "databricks-jobs">>>>,
    <<"prophecy-build-tool", <<"data-engineering", "/", "ci-cd", "/", "prophecy-build-tool", "/", "prophecy-build-tool">>>>,
    <<"github-actions-prophecy-build-tool", <<"data-engineering", "/", "ci-cd", "/", "prophecy-build-tool", "/", "pbt-github-actions">>>>,
    <<"jenkins-prophecy-build-tool", <<"data-engineering", "/", "ci-cd", "/", "prophecy-build-tool", "/", "pbt-jenkins">>>>,
    <<"unit-tests", <<"data-engineering", "/", "ci-cd", "/", "tests">>>>,
    <<"data-explorer", <<"data-engineering", "/", "development", "/", "data-explorer", "/", "data-explorer">>>>,
    <<"data-diff", <<"data-engineering", "/", "ci-cd", "/", "data-diff">>>>,
    <<"lineage", <<"data-engineering", "/", "lineage", "/", "lineage">>>>,
    <<"expression-builder", <<"data-engineering", "/", "gems", "/", "expression-builder">>>>,
    <<"aggregate", <<"data-engineering", "/", "gems", "/", "transform", "/", "aggregate">>>>,
    <<"deduplicate", <<"data-engineering", "/", "gems", "/", "transform", "/", "deduplicate">>>>,
    <<"join", <<"data-engineering", "/", "gems", "/", "join-split", "/", "join">>>>,
    <<"reformat", <<"data-engineering", "/", "gems", "/", "transform", "/", "reformat">>>>,
    <<"order-by", <<"data-engineering", "/", "gems", "/", "transform", "/", "order-by">>>>,
    <<"repartition", <<"data-engineering", "/", "gems", "/", "join-split", "/", "repartition">>>>,
    <<"schema-transform", <<"data-engineering", "/", "gems", "/", "transform", "/", "schema-transform">>>>,
    <<"filter", <<"data-engineering", "/", "gems", "/", "transform", "/", "filter">>>>,
    <<"limit", <<"data-engineering", "/", "gems", "/", "transform", "/", "limit">>>>,
    <<"secrets", <<"data-engineering", "/", "fabrics", "/", "livy">>>>,
    <<"prophecy-libraries", <<"data-engineering", "/", "extensibility", "/", "dependencies", "/", "prophecy-libs">>>>,
    <<"spark-dependencies", <<"data-engineering", "/", "extensibility", "/", "dependencies", "/", "spark-dependencies">>>>,
    <<"gem-builder-reference", <<"data-engineering", "/", "extensibility", "/", "gem-builder", "/", "gem-builder-reference">>>>,
    <<"optimization-functions", <<"data-engineering", "/", "extensibility", "/", "gem-builder", "/", "optimization-functions">>>>,
    <<"models", <<"data-engineering", "/", "development", "/", "models", "/", "models">>>>,
    <<"model-sources-and-targets", <<"data-engineering", "/", "development", "/", "models", "/", "sources-target", "/", "sources-target">>>>,
    <<"data-model-configurations", <<"data-engineering", "/", "development", "/", "models", "/", "configuration">>>>,
    <<"dataset", <<"data-engineering", "/", "development", "/", "dataset">>>>,
    <<"orchestration", <<"data-engineering", "/", "orchestration">>>>,
    <<"develop-and-deploy", <<"data-engineering", "/", "ci-cd", "/", "deployment", "/", "deployment">>>>,
    <<"ci-cd", <<"data-engineering", "/", "ci-cd", "/", "reliable-ci-cd">>>>,
    <<"secrets", <<"data-analytics", "/", "environment", "/", "secrets", "/", "secrets">>>>,
    <<"csv", <<"data-analytics", "/", "gems", "/", "source-target", "/", "file", "/", "file-types", "/", "csv">>>>,
    <<"json", <<"data-analytics", "/", "gems", "/", "source-target", "/", "file", "/", "file-types", "/", "json">>>>,
    <<"parquet", <<"data-analytics", "/", "gems", "/", "source-target", "/", "file", "/", "file-types", "/", "parquet">>>>,
    <<"excel", <<"data-analytics", "/", "gems", "/", "source-target", "/", "file", "/", "file-types", "/", "excel">>>>,
    <<"xml", <<"data-analytics", "/", "gems", "/", "source-target", "/", "file", "/", "file-types", "/", "xml">>>>,
    <<"fixed-width", <<"data-analytics", "/", "gems", "/", "source-target", "/", "file", "/", "file-types", "/", "fixed-width">>>>,
    <<"source-target", <<"data-analytics", "/", "gems", "/", "source-target", "/", "source-target">>>>,
    <<"gems", <<"data-analytics", "/", "gems", "/", "gems">>>>,
    <<"connections", <<"data-analytics", "/", "environment", "/", "connections", "/", "connections">>>>,
    <<"versioning", <<"data-analytics", "/", "development", "/", "versioning", "/", "version-control">>>>,
    <<"scheduling", <<"data-analytics", "/", "production", "/", "scheduling", "/", "scheduling">>>>,
    <<"triggers", <<"data-analytics", "/", "production", "/", "scheduling", "/", "triggers">>>>,
    <<"monitoring", <<"data-analytics", "/", "production", "/", "monitoring">>>>,
    <<"project-publication", <<"data-analytics", "/", "production", "/", "publication">>>>,
    <<"pipeline-parameters", <<"data-analytics", "/", "development", "/", "pipeline-params">>>>,
    <<"pipeline-execution", <<"data-analytics", "/", "development", "/", "runs", "/", "execution">>>>,
    <<"pipeline-trigger-gem", <<"data-analytics", "/", "production", "/", "scheduling", "/", "pipeline-trigger-gem">>>>,
    <<"project-editor", <<"data-analytics", "/", "development", "/", "studio", "/", "studio">>>>,
    <<"containers", <<"data-analytics", "/", "development", "/", "studio", "/", "containers">>>>,
    <<"charts", <<"data-analytics", "/", "development", "/", "runs", "/", "data-explorer", "/", "charts", "/", "charts">>>>,
    <<"data-explorer", <<"data-analytics", "/", "development", "/", "runs", "/", "data-explorer", "/", "data-explorer">>>>,
    <<"business-applications", <<"data-analytics", "/", "collaboration", "/", "prophecy-apps", "/", "apps">>>>,
    <<"create-business-applications", <<"data-analytics", "/", "collaboration", "/", "prophecy-apps", "/", "app-creation">>>>,
    <<"business-application-components", <<"data-analytics", "/", "collaboration", "/", "prophecy-apps", "/", "app-components">>>>,
    <<"run-apps", <<"data-analytics", "/", "collaboration", "/", "prophecy-apps", "/", "run-apps">>>>,
    <<"app-builder", <<"data-analytics", "/", "collaboration", "/", "prophecy-apps", "/", "app-builder">>>>,
    <<"app-settings", <<"data-analytics", "/", "collaboration", "/", "prophecy-apps", "/", "app-settings">>>>,
    <<"project-sharing", <<"data-analytics", "/", "collaboration", "/", "project-sharing">>>>,
    <<"migrate-managed-projects", <<"data-analytics", "/", "development", "/", "versioning", "/", "migrate-managed">>>>,
    <<"import-projects", <<"data-analytics", "/", "development", "/", "versioning", "/", "import-projects">>>>,
    <<"clone-projects", <<"data-analytics", "/", "development", "/", "versioning", "/", "clone-projects">>>>,
    <<"collaboration-modes", <<"data-analytics", "/", "development", "/", "versioning", "/", "collaboration-modes">>>>,
    <<"visual-expression-builder", <<"data-analytics", "/", "gems", "/", "visual-expression-builder", "/", "visual-expression-builder">>>>,
    <<"visual-expression-builder-reference", <<"data-analytics", "/", "gems", "/", "visual-expression-builder", "/", "visual-expression-builder-reference">>>>,
    <<"variant-schema", <<"data-analytics", "/", "gems", "/", "visual-expression-builder", "/", "variant-schema">>>>,
    <<"flatten-schema", <<"data-analytics", "/", "gems", "/", "prepare", "/", "flatten-schema">>>>,
    <<"join", <<"data-analytics", "/", "gems", "/", "join-split", "/", "join">>>>,
    <<"union", <<"data-analytics", "/", "gems", "/", "join-split", "/", "union">>>>,
    <<"union-by-name", <<"data-analytics", "/", "gems", "/", "join-split", "/", "union-by-name">>>>,
    <<"filter", <<"data-analytics", "/", "gems", "/", "prepare", "/", "filter">>>>,
    <<"aggregate", <<"data-analytics", "/", "gems", "/", "transform", "/", "aggregate">>>>,
    <<"order-by", <<"data-analytics", "/", "gems", "/", "prepare", "/", "order-by">>>>,
    <<"reformat", <<"data-analytics", "/", "gems", "/", "prepare", "/", "reformat">>>>,
    <<"data-cleansing", <<"data-analytics", "/", "gems", "/", "prepare", "/", "data-cleansing">>>>,
    <<"window", <<"data-analytics", "/", "gems", "/", "transform", "/", "window">>>>,
    <<"pivot", <<"data-analytics", "/", "gems", "/", "transform", "/", "pivot">>>>,
    <<"unpivot", <<"data-analytics", "/", "gems", "/", "transform", "/", "unpivot">>>>,
    <<"buffer", <<"data-analytics", "/", "gems", "/", "spatial", "/", "buffer">>>>,
    <<"find-nearest", <<"data-analytics", "/", "gems", "/", "spatial", "/", "nearest-point">>>>,
    <<"simplify", <<"data-analytics", "/", "gems", "/", "spatial", "/", "simplify">>>>,
    <<"heatmap", <<"data-analytics", "/", "gems", "/", "spatial", "/", "heatmap">>>>,
    <<"polybuild", <<"data-analytics", "/", "gems", "/", "spatial", "/", "polybuild">>>>,
    <<"spatial-match", <<"data-analytics", "/", "gems", "/", "spatial", "/", "spatial-match">>>>,
    <<"create-point", <<"data-analytics", "/", "gems", "/", "spatial", "/", "create-point">>>>,
    <<"distance", <<"data-analytics", "/", "gems", "/", "spatial", "/", "distance">>>>,
    <<"nearest-point", <<"data-analytics", "/", "gems", "/", "spatial", "/", "nearest-point">>>>,
    <<"count-records", <<"data-analytics", "/", "gems", "/", "transform", "/", "count-records">>>>,
    <<"directory", <<"data-analytics", "/", "gems", "/", "custom", "/", "directory">>>>,
    <<"data-masking", <<"data-analytics", "/", "gems", "/", "prepare", "/", "masking">>>>,
    <<"encode-decode", <<"data-analytics", "/", "gems", "/", "transform", "/", "encoder-decoder">>>>,
    <<"find-duplicates", <<"data-analytics", "/", "gems", "/", "prepare", "/", "find-duplicates">>>>,
    <<"record-id", <<"data-analytics", "/", "gems", "/", "prepare", "/", "record-id">>>>,
    <<"dynamic-input", <<"data-analytics", "/", "gems", "/", "custom", "/", "dynamic-input">>>>,
    <<"stored-procedure", <<"data-analytics", "/", "gems", "/", "custom", "/", "stored-procedure">>>>,
    <<"stored-procedure-gem", <<"data-analytics", "/", "gems", "/", "custom", "/", "stored-procedure">>>>,
    <<"bigquery", <<"data-analytics", "/", "gems", "/", "source-target", "/", "table", "/", "bigquery">>>>,
    <<"bigquery-table", <<"data-analytics", "/", "gems", "/", "source-target", "/", "table", "/", "bigquery">>>>,
    <<"databricks", <<"data-analytics", "/", "gems", "/", "source-target", "/", "table", "/", "databricks">>>>,
    <<"databricks-table", <<"data-analytics", "/", "gems", "/", "source-target", "/", "table", "/", "databricks">>>>,
    <<"snowflake", <<"data-analytics", "/", "gems", "/", "source-target", "/", "external-table", "/", "snowflake">>>>,
    <<"redshift", <<"data-analytics", "/", "gems", "/", "source-target", "/", "external-table", "/", "redshift">>>>,
    <<"mssql", <<"data-analytics", "/", "gems", "/", "source-target", "/", "external-table", "/", "mssql">>>>,
    <<"oracle", <<"data-analytics", "/", "gems", "/", "source-target", "/", "external-table", "/", "oracle">>>>,
    <<"mongodb", <<"data-analytics", "/", "gems", "/", "source-target", "/", "external-table", "/", "mongodb">>>>,
    <<"salesforce", <<"data-analytics", "/", "gems", "/", "source-target", "/", "external-table", "/", "salesforce">>>>,
    <<"synapse", <<"data-analytics", "/", "gems", "/", "source-target", "/", "external-table", "/", "synapse">>>>,
    <<"hana-gem", <<"data-analytics", "/", "gems", "/", "source-target", "/", "external-table", "/", "hana", "/", "hana">>>>,
    <<"hana-generated-columns", <<"data-analytics", "/", "gems", "/", "source-target", "/", "external-table", "/", "hana", "/", "identity-columns">>>>,
    <<"adls-gem", <<"data-analytics", "/", "gems", "/", "source-target", "/", "file", "/", "adls">>>>,
    <<"gcs-gem", <<"data-analytics", "/", "gems", "/", "source-target", "/", "file", "/", "gcs">>>>,
    <<"s3-gem", <<"data-analytics", "/", "gems", "/", "source-target", "/", "file", "/", "s3">>>>,
    <<"sftp-gem", <<"data-analytics", "/", "gems", "/", "source-target", "/", "file", "/", "sftp">>>>,
    <<"onedrive-gem", <<"data-analytics", "/", "gems", "/", "source-target", "/", "file", "/", "onedrive">>>>,
    <<"sharepoint-gem", <<"data-analytics", "/", "gems", "/", "source-target", "/", "file", "/", "sharepoint">>>>,
    <<"smartsheet-gem", <<"data-analytics", "/", "gems", "/", "source-target", "/", "file", "/", "smartsheet">>>>,
    <<"email", <<"data-analytics", "/", "gems", "/", "report", "/", "email">>>>,
    <<"power-bi-write", <<"data-analytics", "/", "gems", "/", "report", "/", "power-bi">>>>,
    <<"tableau", <<"data-analytics", "/", "gems", "/", "report", "/", "tableau">>>>,
    <<"file-types", <<"data-analytics", "/", "gems", "/", "source-target", "/", "file">>>>,
    <<"data-types", <<"data-analytics", "/", "gems", "/", "data-types">>>>,
    <<"logs", <<"data-analytics", "/", "development", "/", "runs", "/", "runtime-logs">>>>,
    <<"ai-chat", <<"data-analytics", "/", "ai", "/", "agent", "/", "agent">>>>,
    <<"ai-explore", <<"data-analytics", "/", "ai", "/", "agent", "/", "explore">>>>,
    <<"dependencies", <<"data-analytics", "/", "development", "/", "extensibility", "/", "dependencies">>>>,
    <<"script", <<"data-analytics", "/", "gems", "/", "custom", "/", "script">>>>,
    <<"macro", <<"data-analytics", "/", "gems", "/", "custom", "/", "macro">>>>,
    <<"sql-statement", <<"data-analytics", "/", "gems", "/", "custom", "/", "sql-statement">>>>,
    <<"rest-api", <<"data-analytics", "/", "gems", "/", "custom", "/", "rest-api">>>>,
    <<"schedule-email-alerts", <<"data-analytics", "/", "production", "/", "scheduling", "/", "alerts">>>>
>>

\* path_part in common_mappings
InCommonMappings(path_part) ==
    \E i \in 1..Len(CommonMappingEntries) : <<CommonMappingEntries[i][1]>> = path_part

\* common_mappings[path_part]: the value of the last entry with that key
common_mappings(path_part) ==
    LET hits == {i \in 1..Len(CommonMappingEntries) :
                    <<CommonMappingEntries[i][1]>> = path_part}
        last == CHOOSE i \in hits : \A j \in hits : j <= i
    IN  CommonMappingEntries[last][2]

\* "if hash_fragment: result += '#' + hash_fragment"; hash_fragment is None
\* when the path has no "#"
WithFragment(result, hash_fragment) ==
    IF Truthy(hash_fragment) THEN result \o <<"#">> \o hash_fragment ELSE result

\* lines 110-120: strip the leading slashes, "docs/" and the legacy prefix;
\* the prefix, when present, overrides the is_engineer argument
StripPrefix(old_path, is_eng) ==
    LET noSlash == LStrip(old_path, {"/"})
        noDocs == IF StartsWith(noSlash, <<"docs", "/">>)
                  THEN SubSeq(noSlash, 3, Len(noSlash)) ELSE noSlash
    IN  IF StartsWith(noDocs, <<"engineers", "/">>)
        THEN [path |-> SubSeq(noDocs, 3, Len(noDocs)), is_engineer |-> TRUE]
        ELSE IF StartsWith(noDocs, <<"analysts", "/">>)
        THEN [path |-> SubSeq(noDocs, 3, Len(noDocs)), is_engineer |-> FALSE]
        ELSE [path |-> noDocs, is_engineer |-> is_eng]

\* lines 124-128: path_part and hash_fragment, split at the first "#"
SplitFragment(path_without_prefix) ==
    LET h == IndexFrom(path_without_prefix, "#", 1)
    IN  IF h = 0 THEN [path_part |-> path_without_prefix, hash_fragment |-> None]
        ELSE [path_part |-> SubSeq(path_without_prefix, 1, h - 1),
              hash_fragment |-> SubSeq(path_without_prefix, h + 1,
                                       Len(path_without_prefix))]

\* candidate.startswith('data-engineering') for an engineers reference,
\* candidate.startswith('data-analytics') for an analysts reference
InSection(candidate, is_eng) ==
    IF is_eng THEN StartsWithChars(candidate, <<DataEngineering>>)
    ELSE StartsWithChars(candidate, <<DataAnalytics>>)

\* the whole-path lookup without the branch for a single candidate: only a
\* candidate of the reference's section is returned
WholeKeyRuleSectionOnly(path_part, idx, is_eng) ==
    IF path_part \notin DOMAIN idx THEN None
    ELSE LET candidates == idx[path_part]
             hit == FirstOf({i \in 1..Len(candidates) :
                                InSection(candidates[i], is_eng)})
         IN  IF hit > 0 THEN <<"/">> \o candidates[hit] ELSE None

\* lines 134-154: the lookup of the whole path_part; None when it falls through
WholeKeyRule(path_part, idx, is_eng) ==
    IF path_part \notin DOMAIN idx THEN None
    ELSE LET candidates == idx[path_part]
         IN  IF Len(candidates) = 1 THEN <<"/">> \o candidates[1]
             ELSE LET hit == FirstOf({i \in 1..Len(candidates) :
                                        InSection(candidates[i], is_eng)})
                  IN  IF hit > 0 THEN <<"/">> \o candidates[hit] ELSE None

\* lines 158-175: the last i segments, then i-1, ...; a key none of whose
\* candidates lies in the section is passed over
RECURSIVE DirectoryRule(_, _, _, _)
DirectoryRule(path_segments, i, idx, is_eng) ==
    IF i < 1 THEN None
    ELSE LET partial == Join(LastN(path_segments, i), "/")
             hit == IF partial \in DOMAIN idx
                    THEN FirstOf({k \in 1..Len(idx[partial]) :
                                    InSection(idx[partial][k], is_eng)})
                    ELSE 0
         IN  IF hit > 0 THEN <<"/">> \o idx[partial][hit]
             ELSE DirectoryRule(path_segments, i - 1, idx, is_eng)

\* lines 349-353: the static table
TableRule(path_part) ==
    IF InCommonMappings(path_part) THEN <<"/">> \o common_mappings(path_part)
    ELSE None

\* the prefix replacement without the test of is_engineer
PrefixSynthesisEngineersOnly(path_part, is_eng) ==
    <<"/", DataEngineering, "/">> \o path_part

\* lines 356-359: simple prefix replacement
PrefixSynthesis(path_part, is_eng) ==
    IF is_eng THEN <<"/", DataEngineering, "/">> \o path_part
    ELSE <<"/", DataAnalytics, "/">> \o path_part

\* which rule of find_target_path produces the result
find_target_rule(old_path, idx, is_eng) ==
    LET sp == StripPrefix(old_path, is_eng)
        fr == SplitFragment(sp.path)
        path_segments == Split(fr.path_part, "/")
    IN  IF WholeKeyRule(fr.path_part, idx, sp.is_engineer) # None THEN "whole"
        ELSE IF DirectoryRule(path_segments, Len(path_segments), idx,
                              sp.is_engineer) # None THEN "directory"
        ELSE IF TableRule(fr.path_part) # None THEN "table"
        ELSE "synthesis"

find_target_path(old_path, idx, is_eng) ==
    LET sp == StripPrefix(old_path, is_eng)
        fr == SplitFragment(sp.path)
        path_segments == Split(fr.path_part, "/")
        whole == WholeKeyRule(fr.path_part, idx, sp.is_engineer)
        byDir == DirectoryRule(path_segments, Len(path_segments), idx,
                               sp.is_engineer)
        byTable == TableRule(fr.path_part)
        result == IF whole # None THEN whole
                  ELSE IF byDir # None THEN byDir
                  ELSE IF byTable # None THEN byTable
                  ELSE PrefixSynthesis(fr.path_part, sp.is_engineer)
    IN  WithFragment(result, fr.hash_fragment)

----------------------------------------------------------------------------
(* Document Rewriter of fix_all_links.py *)

\* names that start with "http", that start with "img", that end with "img"
HttpNames == {"http", "https"}
ImgNames == {"img"}
ImageExtensions == {"png", "jpg", "jpeg", "gif", "svg"}

\* lines 152-161: the link is an image or an external URL
SkipLink(l) ==
    \/ l # <<>> /\ Head(l) \in HttpNames
    \/ Len(l) >= 2 /\ l[1] \in ImgNames /\ l[2] = "/"
    \/ Len(l) >= 3 /\ l[1] = "." /\ l[2] = "/" /\ l[3] \in ImgNames
    \/ \E x \in ImageExtensions : EndsWith(l, <<".", x>>)
    \/ \E i \in 1..(Len(l) - 1) : l[i] \in ImgNames /\ l[i + 1] = "/"
    \/ \E i \in 1..(Len(l) - 1) : l[i] = "/" /\ l[i + 1] \in ImgNames

\* lines 168-169: the path resolved without the leading slash
WithoutLeadingSlash(l, idx) ==
    IF l # <<>> /\ Head(l) = "/" THEN find_correct_path(Tail(l), idx) ELSE None

OrElse(first, second) == IF Truthy(first) THEN first ELSE second

\* lines 165-171: the resolved path, retried without the leading slash
CorrectPathFor(l, idx) ==
    OrElse(find_correct_path(l, idx), WithoutLeadingSlash(l, idx))

NoMatch == [ok |-> FALSE, from |-> 0, to |-> 0, end |-> 0]

\* line 177: a match of (\[[^\]]+\]\()(link)(#[^\)]*)?(\)) starting at pos:
\* "[", at least one token up to the first "]", "(", the link itself
\* (tokens from..to), an optional "#..." up to the first ")", and ")" at end
FixMatch(text, pos, link) ==
    LET q == IndexFrom(text, "]", pos + 1)
        from == q + 2
        after == from + Len(link)
        closing == IndexFrom(text, ")", after + 1)
    IN  IF /\ text[pos] = "["
           /\ q >= pos + 2
           /\ after <= Len(text)
           /\ text[q + 1] = "("
           /\ SubSeq(text, from, after - 1) = link
        THEN IF text[after] = "#" /\ closing > 0
             THEN [ok |-> TRUE, from |-> from, to |-> after - 1, end |-> closing]
             ELSE IF text[after] = ")"
             THEN [ok |-> TRUE, from |-> from, to |-> after - 1, end |-> after]
             ELSE NoMatch
        ELSE NoMatch

\* the replacement of the match m, put before what re.sub makes of the rest
FixReplaced(text, pos, m, repl_path, rest) ==
    [text |-> SubSeq(text, pos, m.from - 1) \o repl_path
              \o SubSeq(text, m.to + 1, m.end) \o rest.text,
     n |-> rest.n + 1]

\* the least element of a non-empty set of positions
Least(positions) == CHOOSE p \in positions : \A k \in positions : p <= k

\* the leftmost match of the pattern of line 177 that starts at pos or later
FirstFixMatch(text, pos, link) ==
    LET starts == {p \in pos..Len(text) : FixMatch(text, p, link).ok}
    IN  IF starts = {} THEN NoMatch ELSE FixMatch(text, Least(starts), link)

RECURSIVE FixSub(_, _, _, _)

FixSubAt(text, pos, link, repl_path, m) ==
    IF m.ok
    THEN FixReplaced(text, pos, m, repl_path,
                     FixSub(text, m.end + 1, link, repl_path))
    ELSE [text |-> SubSeq(text, pos, Len(text)), n |-> 0]

\* line 190: re.sub(pattern, replace_func, new_content) from pos on: the
\* text with every match's link replaced, and the number of matches
FixSub(text, pos, link, repl_path) ==
    FixSubAt(text, pos, link, repl_path, FirstFixMatch(text, pos, link))

RECURSIVE FixLoop(_, _, _, _)

\* line 184: replacements.append((link, '/' + correct_path)), once or more,
\* when the pattern matched
Recorded(replacements, l, repl_path, r) ==
    IF r.n > 0 THEN replacements \cup {<<l, repl_path>>} ELSE replacements

\* lines 173-190 for one broken link l that resolved to repl_path
FixOne(new_content, links, idx, replacements, l, repl_path, r) ==
    FixLoop(r.text, Tail(links), idx, Recorded(replacements, l, repl_path, r))

\* lines 151-171 for one broken link l
FixLink(new_content, links, idx, replacements, l, repl_path) ==
    IF SkipLink(l) \/ ~Truthy(repl_path)
    THEN FixLoop(new_content, Tail(links), idx, replacements)
    ELSE FixOne(new_content, links, idx, replacements, l, repl_path,
                FixSub(new_content, 1, l, repl_path))

\* lines 150-190: the loop over broken_links
FixLoop(new_content, links, idx, replacements) ==
    IF links = <<>>
    THEN [new_content |-> new_content, replacements |-> replacements]
    ELSE FixLink(new_content, links, idx, replacements, Head(links),
                 CorrectPathFor(Head(links), idx))

\* lines 192-197 without the comparison of line 192: the file is written
\* and the recorded replacements are returned whatever the computed text is
WriteBackAlways(text, r) ==
    [content |-> r.new_content, written |-> TRUE,
     count |-> Cardinality(r.replacements), replacements |-> r.replacements]

\* lines 192-197: write back if changed, and what is returned
WriteBackFixed(text, r) ==
    IF r.new_content # text
    THEN [content |-> r.new_content, written |-> TRUE,
          count |-> Cardinality(r.replacements),
          replacements |-> r.replacements]
    ELSE [content |-> text, written |-> FALSE, count |-> 0,
          replacements |-> {}]

\* fix_links_in_file on a file holding text: the text the file holds
\* afterwards, whether it was written, and the (count, replacements) returned;
\* a file that cannot be read gives (0, [])
fix_links_in_file(text, readable, links, idx) ==
    IF ~readable
    THEN [content |-> text, written |-> FALSE, count |-> 0, replacements |-> {}]
    ELSE WriteBackFixed(text, FixLoop(text, links, idx, {}))

----------------------------------------------------------------------------
(* Document Rewriter of update_links.py *)

LegacyNames == {"engineers", "analysts"}

\* mappings.get(old_path)
DictGet(d, k) == IF k \in DOMAIN d THEN d[k] ELSE None

\* mappings[old_path] = new_path
DictSet(d, k, v) ==
    IF k \in DOMAIN d THEN [d EXCEPT ![k] = v] ELSE d @@ (k :> v)

\* a + b for strings: the last name of a and the first name of b run together
Concat(a, b) ==
    IF a # <<>> /\ b # <<>> /\ a[Len(a)] \notin Punct /\ Head(b) \notin Punct
    THEN SubSeq(a, 1, Len(a) - 1) \o <<a[Len(a)] \o Head(b)>> \o Tail(b)
    ELSE a \o b

\* line 383: a match of (\[([^\]]+)\]\((/engineers|/analysts)([^)]+)\)) at
\* pos: the target is tokens from..to, ")" is at end
UlMatch(text, pos) ==
    LET q == IndexFrom(text, "]", pos + 1)
        closing == IndexFrom(text, ")", q + 4)
    IN  IF /\ text[pos] = "["
           /\ q >= pos + 2
           /\ q + 4 <= Len(text)
           /\ text[q + 1] = "("
           /\ text[q + 2] = "/"
           /\ text[q + 3] \in LegacyNames
           /\ closing > q + 4
        THEN [ok |-> TRUE, from |-> q + 2, to |-> closing - 1, end |-> closing]
        ELSE NoMatch

\* line 411: a match of (\[([^\]]+)\]\((docs/(engineers|analysts)([^)]+))\))
UlRelativeMatch(text, pos) ==
    LET q == IndexFrom(text, "]", pos + 1)
        closing == IndexFrom(text, ")", q + 5)
    IN  IF /\ text[pos] = "["
           /\ q >= pos + 2
           /\ q + 5 <= Len(text)
           /\ text[q + 1] = "("
           /\ text[q + 2] = "docs"
           /\ text[q + 3] = "/"
           /\ text[q + 4] \in LegacyNames
           /\ closing > q + 5
        THEN [ok |-> TRUE, from |-> q + 2, to |-> closing - 1, end |-> closing]
        ELSE NoMatch

\* lines 386-391: old_path = prefix + path_part, groups 3 and 4 of the match
OldPath(text, m) == SubSeq(text, m.from, m.to)

\* lines 414-419: prefix = group 3, the whole target docs/<section><rest>;
\* path_part = group 4, the section word; old_path = "/" + prefix + path_part
RelativeOldPath(text, m) ==
    <<"/">> \o Concat(SubSeq(text, m.from, m.to), <<text[m.from + 2]>>)

\* lines 397 and 425: is_engineer as the callback computes it from prefix
IsEngineerOf(prefix) == prefix = <<"/", "engineers">>
RelativeIsEngineerOf(prefix) == prefix = <<"engineers">>

\* lines 399-400, 427-428: "if new_path: mappings[old_path] = new_path"
Remember(maps, old_path, found) ==
    IF Truthy(found)
    THEN [new_path |-> found, mappings |-> DictSet(maps, old_path, found)]
    ELSE [new_path |-> found, mappings |-> maps]

\* lines 394-400, 422-428: the mapping looked up, else found and cached
Lookup(maps, old_path, idx, is_eng) ==
    IF Truthy(DictGet(maps, old_path))
    THEN [new_path |-> DictGet(maps, old_path), mappings |-> maps]
    ELSE Remember(maps, old_path, find_target_path(old_path, idx, is_eng))

\* lines 402-406, 430-434: what the callback returns for the match m, put
\* before what re.sub makes of the rest of the text
Replaced(text, pos, m, old_path, l, rest) ==
    IF Truthy(l.new_path)
    THEN [text |-> SubSeq(text, pos, m.from - 1) \o l.new_path
                   \o <<")">> \o rest.text,
          mappings |-> rest.mappings,
          replacements |-> <<<<old_path, l.new_path>>>> \o rest.replacements]
    ELSE [text |-> SubSeq(text, pos, m.end) \o rest.text,
          mappings |-> rest.mappings,
          replacements |-> rest.replacements]

\* the leftmost match of the pattern of line 383 that starts at pos or later
FirstUlMatch(text, pos) ==
    LET starts == {p \in pos..Len(text) : UlMatch(text, p).ok}
    IN  IF starts = {} THEN NoMatch ELSE UlMatch(text, Least(starts))

\* the leftmost match of the pattern of line 411 that starts at pos or later
FirstUlRelativeMatch(text, pos) ==
    LET starts == {p \in pos..Len(text) : UlRelativeMatch(text, p).ok}
    IN  IF starts = {} THEN NoMatch ELSE UlRelativeMatch(text, Least(starts))

\* what re.sub leaves of a text in which nothing more matches
Unmatched(text, pos, maps) ==
    [text |-> SubSeq(text, pos, Len(text)), mappings |-> maps,
     replacements |-> <<>>]

RECURSIVE UlSub(_, _, _, _)
RECURSIVE UlRelativeSub(_, _, _, _)

\* replace_link on the match m, then the rest of the text
ReplaceLink(text, pos, idx, m, l) ==
    Replaced(text, pos, m, OldPath(text, m), l,
             UlSub(text, m.end + 1, l.mappings, idx))

\* replace_relative_link on the match m, then the rest of the text
ReplaceRelativeLink(text, pos, idx, m, l) ==
    Replaced(text, pos, m, RelativeOldPath(text, m), l,
             UlRelativeSub(text, m.end + 1, l.mappings, idx))

UlSubAt(text, pos, maps, idx, m) ==
    IF m.ok
    THEN ReplaceLink(text, pos, idx, m,
                     Lookup(maps, OldPath(text, m), idx,
                            IsEngineerOf(SubSeq(text, m.from, m.from + 1))))
    ELSE Unmatched(text, pos, maps)

UlRelativeSubAt(text, pos, maps, idx, m) ==
    IF m.ok
    THEN ReplaceRelativeLink(text, pos, idx, m,
                             Lookup(maps, RelativeOldPath(text, m), idx,
                                    RelativeIsEngineerOf(
                                        SubSeq(text, m.from, m.to))))
    ELSE Unmatched(text, pos, maps)

\* line 408: re.sub(pattern, replace_link, new_content) from pos on
UlSub(text, pos, maps, idx) ==
    UlSubAt(text, pos, maps, idx, FirstUlMatch(text, pos))

\* line 436: re.sub(pattern2, replace_relative_link, new_content) from pos on
UlRelativeSub(text, pos, maps, idx) ==
    UlRelativeSubAt(text, pos, maps, idx, FirstUlRelativeMatch(text, pos))

\* lines 438-443: write back if changed, and what is returned
WriteBackUpdated(text, absolute, relative) ==
    IF relative.text # text
    THEN [content |-> relative.text, written |-> TRUE,
          mappings |-> relative.mappings,
          count |-> Len(absolute.replacements \o relative.replacements),
          replacements |-> absolute.replacements \o relative.replacements]
    ELSE [content |-> text, written |-> FALSE,
          mappings |-> relative.mappings,
          count |-> 0, replacements |-> <<>>]

\* line 436 on what line 408 made of the text
AfterAbsoluteLinks(text, idx, absolute) ==
    WriteBackUpdated(text, absolute,
                     UlRelativeSub(absolute.text, 1, absolute.mappings, idx))

\* update_links_in_file on a file holding text: the text it holds
\* afterwards, whether it was written, the mappings as the callbacks left
\* them, and the (count, replacements) returned
update_links_in_file(text, readable, maps, idx) ==
    IF ~readable
    THEN [content |-> text, written |-> FALSE, mappings |-> maps,
          count |-> 0, replacements |-> <<>>]
    ELSE AfterAbsoluteLinks(text, idx, UlSub(text, 1, maps, idx))

----------------------------------------------------------------------------
(* References handed to the resolvers *)

RefLead == {<<>>, <<"/">>, <<"/", "/">>}

RefPrefix == {
    <<>>,
    <<"engineers", "/">>,
    <<"analysts", "/">>,
    <<"docs", "/", "engineers", "/">>,
    <<DataEngineering, "/">>,
    <<DataAnalytics, "/">> }

RefBody == {
    <<>>,
    <<"csv">>,
    <<"filter">>,
    <<"transform", "/", "filter">>,
    <<"zed">> }

RefExt == {
    <<>>,
    <<".", "md">>,
    <<".", "mdengineers">>,
    <<".", "mdanalysts">>,
    <<"/">>,
    <<".", "md", ".", "md">>,
    <<".", "md", ".">> }

RefFragment == {<<>>, <<"#", "sec">>, <<"#">>}

\* the broken link strings the model tries
Refs == {l \o p \o b \o e \o f :
            l \in RefLead, p \in RefPrefix, b \in RefBody, e \in RefExt,
            f \in RefFragment}

\* no batch is running
BatchIdle ==
    /\ broken_links_output = <<>>
    /\ disk = <<>>
    /\ broken_links_by_file = <<>>
    /\ todo = <<>>
    /\ files_updated = 0
    /\ total_fixed = 0
    /\ remaining = 0

\* what a rewriter returns when it changed nothing: (0, [])
NothingReturned == [count |-> 0, replacements |-> {}]

----------------------------------------------------------------------------
(* The resolver on its own: build the index, then resolve references *)

Init ==
    /\ script \in Scripts
    /\ pc = "start"
    /\ tree \in Trees
    /\ file_index = EmptyDict
    /\ broken_link = <<>>
    /\ is_engineer = FALSE
    /\ correct_path = None
    /\ content = <<>>
    /\ prev_content = <<>>
    /\ broken_links = <<>>
    /\ mappings = EmptyDict
    /\ returned = NothingReturned
    /\ written = FALSE
    /\ BatchIdle

\* build_file_index()
BuildFileIndex ==
    /\ pc = "start"
    /\ file_index' = IF script = "fix_all_links"
                     THEN build_file_index_fal(tree, EmptyDict)
                     ELSE build_file_index_ul(tree, EmptyDict)
    /\ pc' = "indexed"
    /\ UNCHANGED <<script, tree, resolverVars, rewriterVars, batchVars>>

\* find_correct_path(broken_link, file_index)
FindCorrectPath ==
    /\ pc = "indexed"
    /\ script = "fix_all_links"
    /\ \E r \in Refs :
        /\ broken_link' = r
        /\ correct_path' = find_correct_path(r, file_index)
    /\ pc' = "resolved"
    /\ UNCHANGED <<script, tree, file_index, is_engineer, rewriterVars, batchVars>>

\* find_target_path(old_path, file_index, is_engineer)
FindTargetPath ==
    /\ pc = "indexed"
    /\ script = "update_links"
    /\ \E r \in Refs, e \in BOOLEAN :
        /\ broken_link' = r
        /\ is_engineer' = e
        /\ correct_path' = find_target_path(r, file_index, e)
    /\ pc' = "resolved"
    /\ UNCHANGED <<script, tree, file_index, rewriterVars, batchVars>>

Next == BuildFileIndex \/ FindCorrectPath \/ FindTargetPath

Spec == Init /\ [][Next]_vars

----------------------------------------------------------------------------
(* The rewriter on one document: build the index, rewrite, rewrite again *)

Csv == <<"csv">>
Zed == <<"zed">>
ImgDiagramSvg == <<"img", "/", "diagram", ".", "svg">>
HttpsUrl == <<"https", ":", "/", "/", "example", ".", "com", "/", "a", ".", "png">>

\* [t](target)
Link(target) == <<"[", "t", "]", "(">> \o target \o <<")">>
\* [t](target#sec)
FragmentLink(target) == <<"[", "t", "]", "(">> \o target \o <<"#", "sec", ")">>
\* a link whose fragment is never closed: [t](target#a
OpenLink(target) == <<"[", "t", "]", "(">> \o target \o <<"#", "a">>
\* the target as plain text
Plain(target) == <<"see", " ">> \o target \o <<" ">>

\* the pieces of the documents fix_links_in_file is run on
FalPieces == {
    Link(Csv), FragmentLink(Csv), OpenLink(Csv), Plain(Csv),
    Link(Zed), Link(ImgDiagramSvg), Link(HttpsUrl) }

\* the pieces of the documents update_links_in_file is run on
UlPieces == {
    Link(<<"/", "engineers", "/">> \o Csv),
    FragmentLink(<<"/", "analysts", "/">> \o Csv),
    Link(<<"/", "engineers", "/", "csv", "#">>),
    Link(<<"docs", "/", "engineers", "/">> \o Csv),
    FragmentLink(<<"docs", "/", "analysts", "/">> \o Csv),
    OpenLink(<<"/", "engineers", "/">> \o Zed),
    Link(<<"/", "engineers", "/">> \o Zed),
    Plain(<<"/", "engineers", "/">> \o Csv),
    Link(<<"/", "engineers", "/">>),
    Link(<<"/", "engineers", "/">> \o ImgDiagramSvg),
    Link(HttpsUrl) }

\* the concatenations of at most n elements of S
RECURSIVE ConcatsUpTo(_, _)
ConcatsUpTo(S, n) ==
    IF n = 0 THEN {<<>>}
    ELSE {<<>>} \cup {p \o rest : p \in S, rest \in ConcatsUpTo(S, n - 1)}

Texts(s) == ConcatsUpTo(IF s = "fix_all_links" THEN FalPieces ELSE UlPieces,
                        MaxPieces)

\* the broken links the checker may report for a document of fix_all_links
FalLinks == {Csv, Zed, ImgDiagramSvg, HttpsUrl}

LinkLists == ArrangementsUpTo(FalLinks, MaxLinks)

\* the trees of the documents named csv
RewriteTrees ==
    {t \in Trees : \A i \in 1..Len(t) : t[i][Len(t[i])] = "csv"}

InitRewrite ==
    /\ script \in Scripts
    /\ pc = "start"
    /\ tree \in RewriteTrees
    /\ file_index = EmptyDict
    /\ broken_link = <<>>
    /\ is_engineer = FALSE
    /\ correct_path = None
    /\ content \in Texts(script)
    /\ prev_content = <<>>
    /\ broken_links = <<>>
    /\ mappings = EmptyDict
    /\ returned = NothingReturned
    /\ written = FALSE
    /\ BatchIdle

\* what a run of a rewriter that returned r leaves behind
Rewrote(r) ==
    /\ content' = r.content
    /\ prev_content' = content
    /\ returned' = [count |-> r.count, replacements |-> r.replacements]
    /\ written' = r.written

\* fix_links_in_file(file_path, links, file_index) on the document
FixLinksWith(links) ==
    /\ Rewrote(fix_links_in_file(content, TRUE, links, file_index))
    /\ broken_links' = links
    /\ UNCHANGED <<script, tree, file_index, resolverVars, mappings, batchVars>>

FixLinksInFile ==
    /\ pc = "indexed"
    /\ script = "fix_all_links"
    /\ \E links \in LinkLists : FixLinksWith(links)
    /\ pc' = "rewritten"

\* the same call once more, on the file as the first call left it
FixLinksInFileAgain ==
    /\ pc = "rewritten"
    /\ script = "fix_all_links"
    /\ FixLinksWith(broken_links)
    /\ pc' = "rewritten again"

\* the mappings are a dict the callbacks of the rewriter add to
Updated(r) == Rewrote(r) /\ mappings' = r.mappings

\* update_links_in_file(file_path, mappings, file_index) on the document
UpdateLinks ==
    /\ Updated(update_links_in_file(content, TRUE, mappings, file_index))
    /\ UNCHANGED <<script, tree, file_index, resolverVars, broken_links,
                   batchVars>>

UpdateLinksInFile ==
    /\ pc = "indexed"
    /\ script = "update_links"
    /\ UpdateLinks
    /\ pc' = "rewritten"

\* the same call once more, on the file as the first call left it
UpdateLinksInFileAgain ==
    /\ pc = "rewritten"
    /\ script = "update_links"
    /\ UpdateLinks
    /\ pc' = "rewritten again"

NextRewrite ==
    \/ BuildFileIndex
    \/ FixLinksInFile
    \/ FixLinksInFileAgain
    \/ UpdateLinksInFile
    \/ UpdateLinksInFileAgain

SpecRewrite == InitRewrite /\ [][NextRewrite]_vars

----------------------------------------------------------------------------
(* The checker's report and its parsing *)

Mdx == <<".", "mdx">>

\* the glyph that marks a broken link of the report is the token "BULLET"
Bullet == "BULLET"

\* line.endswith('.mdx') alone: the test without its second half
EndsInMdx(line) == EndsWith(line, Mdx)

\* line.endswith('.mdx') and not line.strip().startswith(bullet)
IsFileLine(line) ==
    EndsWith(line, Mdx) /\ ~StartsWith(Strip(line), <<Bullet>>)

\* line.split(bullet, 1)[1].strip()
LinkOfLine(line) ==
    Strip(SubSeq(line, IndexFrom(line, Bullet, 1) + 1, Len(line)))

\* the test update_links.parse_broken_links puts on a link, lines 53-54
IsLegacyLink(link) ==
    \/ Contains(link, <<"/", "engineers", "/">>)
    \/ Contains(link, <<"/", "analysts", "/">>)
    \/ StartsWith(link, <<"docs", "/", "engineers", "/">>)
    \/ StartsWith(link, <<"docs", "/", "analysts", "/">>)

\* broken_links[current_file].append(link) on a defaultdict(list), kept as the
\* (file, links) pairs in insertion order
AppendLink(by_file, file, link) ==
    IF \E i \in DOMAIN by_file : by_file[i][1] = file
    THEN [i \in DOMAIN by_file |->
             IF by_file[i][1] = file
             THEN <<file, Append(by_file[i][2], link)>>
             ELSE by_file[i]]
    ELSE Append(by_file, <<file, <<link>>>>)

\* the loop over output.split('\n'); legacy_only is the extra test of
\* update_links.parse_broken_links
RECURSIVE ParseLines(_, _, _, _)
ParseLines(lines, current_file, by_file, legacy_only) ==
    IF lines = <<>> THEN by_file
    ELSE LET line == Head(lines)
         IN  IF IsFileLine(line)
             THEN ParseLines(Tail(lines), Strip(line), by_file, legacy_only)
             ELSE IF Truthy(current_file) /\ IndexFrom(line, Bullet, 1) # 0
             THEN LET link == LinkOfLine(line)
                  IN  IF link # <<>> /\ (legacy_only => IsLegacyLink(link))
                      THEN ParseLines(Tail(lines), current_file,
                                      AppendLink(by_file, current_file, link),
                                      legacy_only)
                      ELSE ParseLines(Tail(lines), current_file, by_file,
                                      legacy_only)
             ELSE ParseLines(Tail(lines), current_file, by_file, legacy_only)

parse_all_broken_links(output) == ParseLines(output, None, <<>>, FALSE)

parse_broken_links(output) == ParseLines(output, None, <<>>, TRUE)

\* sum(len(links) for links in broken_links_by_file.values())
RECURSIVE TotalLinks(_)
TotalLinks(by_file) ==
    IF by_file = <<>> THEN 0
    ELSE Len(Head(by_file)[2]) + TotalLinks(Tail(by_file))

\* the set all_broken_links of update_links.main
AllBrokenLinks(by_file) ==
    UNION {{by_file[i][2][k] : k \in DOMAIN by_file[i][2]} : i \in DOMAIN by_file}

\* a main that takes any output of the checker, empty or not, for a report
AnyCheckerOutput(output) == FALSE

\* "if not broken_links_output" of the two main functions
NoCheckerOutput(output) == ~Truthy(output)

\* Step 4 of update_links.main: the mappings of all the broken links
RECURSIVE BuildMappings(_, _, _)
BuildMappings(links, idx, maps) ==
    IF links = {} THEN maps
    ELSE LET old_path == CHOOSE l \in links : TRUE
             new_path == find_target_path(
                             old_path, idx,
                             Contains(old_path, <<"/", "engineers", "/">>))
         IN  BuildMappings(links \ {old_path}, idx,
                           IF Truthy(new_path)
                           THEN DictSet(maps, old_path, new_path) ELSE maps)

----------------------------------------------------------------------------
(* The batch: main of fix_all_links.py and main of update_links.py *)

EngineersCsv == <<"/", "engineers", "/", "csv">>

\* the texts a document of the batch may hold
BatchContents == {Link(Csv), Link(EngineersCsv)}

\* what reading and writing a document does
IoKinds == {"ok", "unreadable", "readonly"}

Disks(t) == [1..Len(t) -> [content : BatchContents, io : IoKinds]]

\* a document line followed by one bullet line
ReportEntry(doc, link) == <<doc \o Mdx, <<" ", Bullet, " ">> \o link>>

\* what the report may say of one document: of the two csv documents, and of
\* one that does not exist
ReportEntries == {
    ReportEntry(<<DataEngineering, "/", "x", "/", "csv">>, Csv),
    ReportEntry(<<DataEngineering, "/", "x", "/", "csv">>, EngineersCsv),
    ReportEntry(<<DataAnalytics, "/", "y", "/", "csv">>, EngineersCsv),
    ReportEntry(<<DataEngineering, "/", "x", "/", "gone">>, Csv) }

\* the outputs of the checker: nothing when it could not be run, else the
\* lines of a report
Reports == ConcatsUpTo(ReportEntries, MaxReportFiles)

\* the counts the verification run of fix_all_links.main may arrive at
RemainingAfterFix ==
    {TotalLinks(parse_all_broken_links(broken_links_after)) :
        broken_links_after \in Reports}

\* the counts the verification run of update_links.main may arrive at
RemainingAfterUpdate ==
    {Cardinality({l \in AllBrokenLinks(parse_broken_links(broken_links_after)) :
                     \/ Contains(l, <<"/", "engineers", "/">>)
                     \/ Contains(l, <<"/", "analysts", "/">>)}) :
        broken_links_after \in Reports}

\* the document of the tree that BASE_DIR / file_path_str is, 0 if the file
\* does not exist
DocOf(file_path_str) ==
    LET found == {i \in DOMAIN tree : tree[i] \o Mdx = file_path_str}
    IN  IF found = {} THEN 0 ELSE CHOOSE i \in found : TRUE

InitBatch ==
    /\ script \in Scripts
    /\ pc = "start"
    /\ tree \in RewriteTrees
    /\ file_index = EmptyDict
    /\ broken_link = <<>>
    /\ is_engineer = FALSE
    /\ correct_path = None
    /\ content = <<>>
    /\ prev_content = <<>>
    /\ broken_links = <<>>
    /\ mappings = EmptyDict
    /\ returned = NothingReturned
    /\ written = FALSE
    /\ broken_links_output = <<>>
    /\ disk \in Disks(tree)
    /\ broken_links_by_file = <<>>
    /\ todo = <<>>
    /\ files_updated = 0
    /\ total_fixed = 0
    /\ remaining = 0

\* Step 1 of main: run the checker; fix_all_links.main returns when there is
\* no output, update_links.main prints a warning and goes on
RunMintBrokenLinks ==
    /\ pc = "start"
    /\ \E output \in Reports :
           /\ broken_links_output' = output
           /\ pc' = IF script = "fix_all_links" /\ NoCheckerOutput(output)
                    THEN "aborted" ELSE "checked"
    /\ UNCHANGED <<script, tree, file_index, resolverVars, rewriterVars, disk,
                   broken_links_by_file, todo, files_updated, total_fixed,
                   remaining>>

\* Steps 2 and 3 of fix_all_links.main: parse the report, build the index
PrepareFix ==
    /\ pc = "checked"
    /\ script = "fix_all_links"
    /\ broken_links_by_file' = parse_all_broken_links(broken_links_output)
    /\ file_index' = build_file_index_fal(tree, EmptyDict)
    /\ todo' = broken_links_by_file'
    /\ pc' = "fixing"
    /\ UNCHANGED <<script, tree, resolverVars, rewriterVars,
                   broken_links_output, disk, files_updated, total_fixed,
                   remaining>>

\* Steps 2 to 4 of update_links.main: parse the report, build the index and
\* the mappings; then list the documents, in the order rglob gives them
PrepareUpdate ==
    /\ pc = "checked"
    /\ script = "update_links"
    /\ broken_links_by_file' = parse_broken_links(broken_links_output)
    /\ file_index' = build_file_index_ul(tree, EmptyDict)
    /\ mappings' = BuildMappings(AllBrokenLinks(broken_links_by_file'),
                                 file_index', EmptyDict)
    /\ \E all_mdx_files \in Arrangements(DOMAIN tree, Len(tree)) :
           todo' = all_mdx_files
    /\ pc' = "fixing"
    /\ UNCHANGED <<script, tree, resolverVars, content, prev_content,
                   broken_links, returned, written, broken_links_output, disk,
                   files_updated, total_fixed, remaining>>

\* what one call of a rewriter on document i leaves behind: r is what the
\* rewriter computed; write_text raises on a document that cannot be written,
\* and nothing catches it
AfterRewriter(i, r) ==
    IF r.written /\ disk[i].io = "readonly"
    THEN /\ pc' = "crashed"
         /\ content' = disk[i].content
         /\ written' = FALSE
         /\ returned' = NothingReturned
         /\ UNCHANGED <<disk, files_updated, total_fixed>>
    ELSE /\ pc' = pc
         /\ content' = r.content
         /\ written' = r.written
         /\ returned' = [count |-> r.count, replacements |-> r.replacements]
         /\ disk' = [disk EXCEPT ![i].content = r.content]
         /\ files_updated' = IF r.count > 0 THEN files_updated + 1
                             ELSE files_updated
         /\ total_fixed' = total_fixed + r.count

\* one turn of the loop of Step 4 of fix_all_links.main
FixNextFile ==
    /\ pc = "fixing"
    /\ script = "fix_all_links"
    /\ todo # <<>>
    /\ todo' = Tail(todo)
    /\ LET file_path_str == Head(todo)[1]
           links == Head(todo)[2]
           i == DocOf(file_path_str)
       IN  IF i = 0
           THEN UNCHANGED <<pc, rewriterVars, disk, files_updated, total_fixed>>
           ELSE /\ AfterRewriter(i, fix_links_in_file(
                                        disk[i].content,
                                        disk[i].io # "unreadable",
                                        links, file_index))
                /\ prev_content' = disk[i].content
                /\ broken_links' = links
                /\ UNCHANGED mappings
    /\ UNCHANGED <<script, tree, file_index, resolverVars, broken_links_output,
                   broken_links_by_file, remaining>>

\* update_links_in_file on document i returned r
AfterUpdate(i, r) == AfterRewriter(i, r) /\ mappings' = r.mappings

\* one turn of the loop of Step 5 of update_links.main
UpdateNextFile ==
    /\ pc = "fixing"
    /\ script = "update_links"
    /\ todo # <<>>
    /\ todo' = Tail(todo)
    /\ AfterUpdate(Head(todo),
                   update_links_in_file(disk[Head(todo)].content,
                                        disk[Head(todo)].io # "unreadable",
                                        mappings, file_index))
    /\ prev_content' = disk[Head(todo)].content
    /\ UNCHANGED <<script, tree, file_index, resolverVars, broken_links,
                   broken_links_output, broken_links_by_file, remaining>>

\* the last step of main: run the checker again and count what it reports
Verify ==
    /\ pc = "fixing"
    /\ todo = <<>>
    /\ remaining' \in IF script = "fix_all_links"
                       THEN RemainingAfterFix ELSE RemainingAfterUpdate
    /\ pc' = "done"
    /\ UNCHANGED <<script, tree, file_index, resolverVars, rewriterVars,
                   broken_links_output, disk, broken_links_by_file, todo,
                   files_updated, total_fixed>>

NextBatch ==
    \/ RunMintBrokenLinks
    \/ PrepareFix
    \/ PrepareUpdate
    \/ FixNextFile
    \/ UpdateNextFile
    \/ Verify

SpecBatch == InitBatch /\ [][NextBatch]_vars

----------------------------------------------------------------------------
(* fix_links_in_file on a document with one link, which the checker reported *)

\* the broken link strings of the reports: the references without fragment
ReportedRefs ==
    {l \o p \o b \o e :
        l \in RefLead, p \in RefPrefix, b \in RefBody, e \in RefExt}

InitReported ==
    /\ script = "fix_all_links"
    /\ pc = "start"
    /\ tree \in Trees
    /\ file_index = EmptyDict
    /\ broken_link = <<>>
    /\ is_engineer = FALSE
    /\ correct_path = None
    /\ content \in {Link(r) : r \in ReportedRefs}
    /\ prev_content = <<>>
    /\ broken_links = <<>>
    /\ mappings = EmptyDict
    /\ returned = NothingReturned
    /\ written = FALSE
    /\ BatchIdle

\* fix_links_in_file(file_path, [link], file_index), link being the link of
\* the document
FixReportedLink ==
    /\ pc = "indexed"
    /\ script = "fix_all_links"
    /\ \E r \in ReportedRefs : content = Link(r) /\ FixLinksWith(<<r>>)
    /\ pc' = "rewritten"

NextReported ==
    \/ BuildFileIndex
    \/ FixReportedLink

SpecReported == InitReported /\ [][NextReported]_vars

----------------------------------------------------------------------------
(* The parsers of the checker's report on their own *)

\* the lines a report is made of: two document lines, bullet lines with a
\* legacy link, with another link, with a legacy link that ends in .mdx and
\* with no link, and a line of other text
ReportLines == {
    <<DataEngineering, "/", "x", "/", "csv">> \o Mdx,
    <<DataAnalytics, "/", "y", "/", "csv">> \o Mdx,
    <<" ", Bullet, " ">> \o EngineersCsv,
    <<" ", Bullet, " ">> \o Csv,
    <<" ", Bullet, " ", "/", "analysts", "/", "csv">> \o Mdx,
    <<" ", Bullet, " ">>,
    <<"found", " ", "broken", " ", "links">> }

\* the reports of at most MaxReportLines lines
ReportTexts == UNION {[1..n -> ReportLines] : n \in 0..MaxReportLines}

InitParse ==
    /\ script \in Scripts
    /\ pc = "checked"
    /\ tree = <<>>
    /\ file_index = EmptyDict
    /\ broken_link = <<>>
    /\ is_engineer = FALSE
    /\ correct_path = None
    /\ content = <<>>
    /\ prev_content = <<>>
    /\ broken_links = <<>>
    /\ mappings = EmptyDict
    /\ returned = NothingReturned
    /\ written = FALSE
    /\ broken_links_output \in ReportTexts
    /\ disk = <<>>
    /\ broken_links_by_file = <<>>
    /\ todo = <<>>
    /\ files_updated = 0
    /\ total_fixed = 0
    /\ remaining = 0

\* parse_all_broken_links(output) of fix_all_links.py
ParseAllBrokenLinks ==
    /\ pc = "checked"
    /\ script = "fix_all_links"
    /\ broken_links_by_file' = parse_all_broken_links(broken_links_output)
    /\ pc' = "parsed"
    /\ UNCHANGED <<script, tree, file_index, resolverVars, rewriterVars,
                   broken_links_output, disk, todo, files_updated, total_fixed,
                   remaining>>

\* parse_broken_links(output) of update_links.py
ParseBrokenLinks ==
    /\ pc = "checked"
    /\ script = "update_links"
    /\ broken_links_by_file' = parse_broken_links(broken_links_output)
    /\ pc' = "parsed"
    /\ UNCHANGED <<script, tree, file_index, resolverVars, rewriterVars,
                   broken_links_output, disk, todo, files_updated, total_fixed,
                   remaining>>

NextParse ==
    \/ ParseAllBrokenLinks
    \/ ParseBrokenLinks

SpecParse == InitParse /\ [][NextParse]_vars

----------------------------------------------------------------------------
(* Properties of the resolvers *)

\* key is the path of doc or a trailing part of it, cut at a "/"
HasKey(doc, key) == doc = key \/ EndsWith(doc, <<"/">> \o key)

\* the documents of the tree registered under key, in discovery order
DocsUnder(key) == SelectSeq(tree, LAMBDA d : HasKey(d, key))

EngOf(docs) == SelectSeq(docs, LAMBDA d : Head(d) = DataEngineering)
AnaOf(docs) == SelectSeq(docs, LAMBDA d : Head(d) = DataAnalytics)

\* the reference as find_correct_path normalizes it, and its segments
FalPath == Normalize(broken_link)
FalParts == Split(FalPath, "/")
FalFilename == FalParts[Len(FalParts)]

\* the reference as find_target_path reads it: path, fragment, section
UlPrefix == StripPrefix(broken_link, is_engineer)
UlSplit == SplitFragment(UlPrefix.path)
UlPath == UlSplit.path_part
UlParts == Split(UlPath, "/")
UlFilename == UlParts[Len(UlParts)]
UlIsEng == UlPrefix.is_engineer

\* the path find_target_path returned, without the fragment it appended
UlResultPath ==
    IF Truthy(UlSplit.hash_fragment)
       /\ EndsWith(correct_path, <<"#">> \o UlSplit.hash_fragment)
    THEN SubSeq(correct_path, 1, Len(correct_path) - Len(UlSplit.hash_fragment) - 1)
    ELSE correct_path

FalResolved == pc = "resolved" /\ script = "fix_all_links"
UlResolved == pc = "resolved" /\ script = "update_links"

\* the section a reference to find_correct_path names in its first segment
FalHintIsSection ==
    Len(FalParts) > 1 /\ FalParts[1] \in {<<DataEngineering>>, <<DataAnalytics>>}

InHint(docs, eng) == IF eng THEN EngOf(docs) ELSE AnaOf(docs)

BothSections(docs) == EngOf(docs) # <<>> /\ AnaOf(docs) # <<>>

GemsTransformFilter == <<DataEngineering, "/", "gems", "/", "transform", "/", "filter">>
TransformFilter == <<"transform", "/", "filter">>

\* the index holds data-engineering/gems/transform/filter and the reference
\* normalizes to transform/filter
C5_Case ==
    /\ pc = "resolved"
    /\ \E i \in 1..Len(tree) : tree[i] = GemsTransformFilter
    /\ IF script = "fix_all_links" THEN FalPath = TransformFilter
       ELSE UlPath = TransformFilter

(* C5 as stated. Suffix fallback scenario: with                             *)
(* data-engineering/gems/transform/filter indexed and a reference that      *)
(* normalizes to transform/filter, the resolver selects that document,      *)
(* whatever other documents are named filter.                               *)
C5_Original ==
    C5_Case =>
        IF script = "fix_all_links"
        THEN correct_path = <<"/">> \o GemsTransformFilter
        ELSE UlResultPath = <<"/">> \o GemsTransformFilter

(* C5 amended. In that scenario find_target_path selects                    *)
(* data-engineering/gems/transform/filter (the only document under the key  *)
(* transform/filter); find_correct_path answers by its filename rule and    *)
(* returns the first document named filter in index order, so it selects    *)
(* data-engineering/gems/transform/filter exactly when no other document    *)
(* named filter was indexed before it.                                      *)
C5_Amended ==
    C5_Case =>
        IF script = "fix_all_links"
        THEN correct_path = <<"/">> \o Head(DocsUnder(<<"filter">>))
        ELSE UlResultPath = <<"/">> \o GemsTransformFilter

\* the scenario with a second document named filter in the index, resolved
\* to data-engineering/gems/transform/filter
C5_Witness ==
    /\ C5_Case
    /\ Len(DocsUnder(<<"filter">>)) > 1
    /\ IF script = "fix_all_links"
       THEN correct_path = <<"/">> \o GemsTransformFilter
       ELSE UlResultPath = <<"/">> \o GemsTransformFilter /\ ~UlIsEng

\* the candidate the ambiguity policy names: the first document under key
\* that lies in the preferred section, else the first document under key
PolicyChoice(key, preferred(_)) ==
    LET docs == DocsUnder(key)
        inPref == SelectSeq(docs, preferred)
    IN  IF inPref # <<>> THEN Head(inPref) ELSE Head(docs)

(* C7. Filename match and ambiguity policy: whenever the final segment of   *)
(* the normalized reference is a filename key of the index, the resolver    *)
(* returns a candidate of that key, one in the preferred section if there   *)
(* is one and else the first in index order; it never falls through.        *)
(* For find_target_path this is stated of the references of one segment,    *)
(* whose filename key is the whole path.                                    *)
C7_FilenamePolicy ==
    /\ (FalResolved /\ DocsUnder(FalFilename) # <<>>)
        => correct_path = <<"/">> \o
             PolicyChoice(FalFilename,
                LAMBDA d : Len(FalParts) > 1 /\ StartsWithChars(d, FalParts[1]))
    /\ (UlResolved /\ Len(UlParts) = 1 /\ DocsUnder(UlFilename) # <<>>)
        => UlResultPath = <<"/">> \o
             PolicyChoice(UlFilename, LAMBDA d : InSection(d, UlIsEng))

(* C8. A reference whose normalized path is empty is unresolved: the        *)
(* resolver returns no path for it.                                         *)
C8_EmptyUnresolved ==
    /\ (FalResolved /\ FalPath = <<>>) => correct_path = None
    /\ (UlResolved /\ UlPath = <<>>) => correct_path = None

----------------------------------------------------------------------------
(* Properties of the rewriters *)

Rewritten == pc \in {"rewritten", "rewritten again"}

\* text[q] is the "]" that ends a display text [<display-text>]
ClosesDisplayText(text, q) ==
    /\ q >= 3
    /\ text[q] = "]"
    /\ \E p \in 1..(q - 2) :
           /\ text[p] = "["
           /\ \A k \in (p + 1)..(q - 1) : text[k] # "]"

\* text[pos] is the "(" that opens the target of a link construct
OpensTarget(text, pos) ==
    /\ pos >= 4
    /\ text[pos] = "("
    /\ ClosesDisplayText(text, pos - 1)

\* the document with the path portion of every link construct (the target up
\* to its "#" or ")") replaced by the one token "PATH"
RECURSIVE Skeleton(_, _, _)
Skeleton(text, pos, inPath) ==
    IF pos > Len(text) THEN <<>>
    ELSE IF inPath
    THEN IF text[pos] \in {"#", ")"}
         THEN <<text[pos]>> \o Skeleton(text, pos + 1, FALSE)
         ELSE Skeleton(text, pos + 1, TRUE)
    ELSE IF OpensTarget(text, pos)
         THEN <<"(", "PATH">> \o Skeleton(text, pos + 1, TRUE)
         ELSE <<text[pos]>> \o Skeleton(text, pos + 1, FALSE)

\* the position of the first ")" of skel from pos on, Len(skel) + 1 if none
ClosingFrom(skel, pos) ==
    LET c == IndexFrom(skel, ")", pos) IN IF c = 0 THEN Len(skel) + 1 ELSE c

\* the fragments of the link constructs of a skeleton, in document order
RECURSIVE FragmentsFrom(_, _)
FragmentsFrom(skel, pos) ==
    IF pos >= Len(skel) THEN <<>>
    ELSE IF skel[pos] = "PATH" /\ skel[pos + 1] = "#"
    THEN <<SubSeq(skel, pos + 2, ClosingFrom(skel, pos + 2) - 1)>>
         \o FragmentsFrom(skel, pos + 2)
    ELSE FragmentsFrom(skel, pos + 1)

NonEmpty(s) == s # <<>>

\* the fragments a document's links carry, the empty ones left out
Fragments(text) == SelectSeq(FragmentsFrom(Skeleton(text, 1, FALSE), 1), NonEmpty)

\* the position of the first "#" or ")" of text from pos on, Len(text) + 1
\* if there is none
PathEndFrom(text, pos) ==
    LET ends == {i \in pos..Len(text) : text[i] \in {"#", ")"}}
    IN  IF ends = {} THEN Len(text) + 1
        ELSE CHOOSE i \in ends : \A k \in ends : i <= k

\* the path portions of the targets of the link constructs of a document, in
\* document order
RECURSIVE LinkPaths(_, _)
LinkPaths(text, pos) ==
    IF pos > Len(text) THEN <<>>
    ELSE IF OpensTarget(text, pos)
    THEN <<SubSeq(text, pos + 1, PathEndFrom(text, pos + 1) - 1)>>
         \o LinkPaths(text, PathEndFrom(text, pos + 1))
    ELSE LinkPaths(text, pos + 1)

\* an absolute http(s) URL, a path with an img/ segment, or one that ends in
\* an image extension
IsImageOrUrl(target) ==
    \/ /\ Len(target) >= 4
       /\ target[1] \in {"http", "https"}
       /\ SubSeq(target, 2, 4) = <<":", "/", "/">>
    \/ Contains(target, <<"img", "/">>)
    \/ \E ext \in {"png", "jpg", "jpeg", "gif", "svg"} :
           EndsWith(target, <<".", ext>>)

\* the old strings of the (old, new) pairs the latest run returned
ReplacedStrings ==
    IF script = "fix_all_links"
    THEN {r[1] : r \in returned.replacements}
    ELSE {returned.replacements[i][1] : i \in DOMAIN returned.replacements}

\* C1: a second run of the rewriter on its own output, with the same inputs,
\* leaves the text as the first run left it and substitutes nothing
C1_Idempotent ==
    pc = "rewritten again" =>
        /\ content = prev_content
        /\ ~written
        /\ returned.count = 0

\* C2: every non-empty fragment a link of the document carries is, after the
\* rewriter ran, still the fragment of that link, exactly as written
C2_FragmentPreserved ==
    Rewritten => Fragments(content) = Fragments(prev_content)

\* C3: the links of the document whose path is an image or a URL are the same
\* before and after a rewriter run, and none of them is among the returned
\* replacements
C3_Passthrough ==
    Rewritten =>
        /\ SelectSeq(LinkPaths(content, 1), IsImageOrUrl)
               = SelectSeq(LinkPaths(prev_content, 1), IsImageOrUrl)
        /\ \A old \in ReplacedStrings : ~IsImageOrUrl(old)

\* C6: outside the path portions of its link constructs (display texts,
\* fragments, surrounding text) the document is, token for token, the same
\* before and after a rewriter run
C6_NonInterference ==
    Rewritten => Skeleton(content, 1, FALSE) = Skeleton(prev_content, 1, FALSE)

----------------------------------------------------------------------------
(* Properties of the batch *)

\* the broken links the parsed report lists for document i
RECURSIVE LinksOf(_, _)
LinksOf(by_file, i) ==
    IF by_file = <<>> THEN <<>>
    ELSE IF DocOf(Head(by_file)[1]) = i THEN Head(by_file)[2]
    ELSE LinksOf(Tail(by_file), i)

\* document i is one the batch is to visit
InBatch(i) ==
    IF script = "fix_all_links"
    THEN \E k \in DOMAIN broken_links_by_file :
             DocOf(broken_links_by_file[k][1]) = i
    ELSE TRUE

\* the rewriter of the batch, run now on document i, would rewrite it
StillFixable(i) ==
    IF script = "fix_all_links"
    THEN fix_links_in_file(disk[i].content, TRUE,
                           LinksOf(broken_links_by_file, i), file_index).written
    ELSE update_links_in_file(disk[i].content, TRUE, mappings,
                              file_index).written

\* every document of the batch that can be read and written has been
\* rewritten if it had links to fix
AllFixed ==
    \A i \in DOMAIN disk :
        (InBatch(i) /\ disk[i].io = "ok") => ~StillFixable(i)

\* Step 1 of main is over and the checker gave no output
CheckerGaveNothing == pc # "start" /\ broken_links_output = <<>>

\* main returned before it built the index or touched a document
AbortedEarly ==
    /\ pc = "aborted"
    /\ file_index = EmptyDict
    /\ broken_links_by_file = <<>>
    /\ todo = <<>>
    /\ ~written
    /\ returned = NothingReturned
    /\ files_updated = 0
    /\ total_fixed = 0

C10_Independence == pc \in {"done", "crashed"} => AllFixed


----------------------------------------------------------------------------
(* Properties of the write-back of the rewriters *)

\* no link construct of the text read carries one of the broken link strings
NoConstructMatches ==
    \A i \in DOMAIN broken_links :
        ~FirstFixMatch(prev_content, 1, broken_links[i]).ok

\* every broken link given was resolved to a document of the index
EveryLinkResolves ==
    \A i \in DOMAIN broken_links :
        Truthy(CorrectPathFor(broken_links[i], file_index))

\* C11: after fix_links_in_file ran on a text none of whose link constructs
\* carries a broken link string, the file was not written, its text is the
\* text read and (0, []) was returned; and after a run of either rewriter
\* the file was written only if the text it holds differs from the text read
C11_NoMatchNoWrite ==
    /\ (Rewritten /\ script = "fix_all_links" /\ NoConstructMatches) =>
           /\ ~written
           /\ content = prev_content
           /\ returned = NothingReturned
    /\ (Rewritten /\ written) => content # prev_content

\* a run of fix_links_in_file that resolved every one of its broken links
\* and found none of them in a link construct of the text
C11_Witness ==
    /\ pc = "rewritten"
    /\ script = "fix_all_links"
    /\ broken_links # <<>>
    /\ EveryLinkResolves
    /\ NoConstructMatches
    /\ \E p \in DOMAIN prev_content : prev_content[p] = "("
    /\ ~written


----------------------------------------------------------------------------
(* Properties of the path index *)

\* the keys si/.../sn of a document s1/.../sn
SuffixKeys(doc) ==
    {SubSeq(doc, p, Len(doc)) :
        p \in {q \in 1..Len(doc) : doc[q] # "/" /\ (q = 1 \/ doc[q - 1] = "/")}}

\* a candidate list without the repetitions of a document
RECURSIVE Distinct(_)
Distinct(candidates) ==
    IF candidates = <<>> THEN <<>>
    ELSE LET front == Distinct(SubSeq(candidates, 1, Len(candidates) - 1))
             last == candidates[Len(candidates)]
         IN  IF \E k \in DOMAIN front : front[k] = last
             THEN front ELSE Append(front, last)

\* C12: in the index build_file_index returns, every document of the tree is
\* a candidate of each key si/.../sn of its path; the candidates of a key are,
\* repetitions aside, exactly the documents whose path ends in the key at a
\* segment boundary, in the order of discovery; and no data-analytics
\* document stands before a data-engineering one
C12_IndexCompleteOrdered ==
    pc = "indexed" =>
        /\ \A i \in DOMAIN tree : \A key \in SuffixKeys(tree[i]) :
               /\ key \in DOMAIN file_index
               /\ \E k \in DOMAIN file_index[key] : file_index[key][k] = tree[i]
        /\ \A key \in DOMAIN file_index :
               /\ Distinct(file_index[key]) = DocsUnder(key)
               /\ \A a, b \in DOMAIN file_index[key] :
                      (a < b /\ Head(file_index[key][b]) = DataEngineering)
                          => Head(file_index[key][a]) = DataEngineering

\* an index with a key that documents of both sections share
C12_Witness ==
    /\ pc = "indexed"
    /\ \E key \in DOMAIN file_index :
           /\ EngOf(file_index[key]) # <<>>
           /\ AnaOf(file_index[key]) # <<>>
           /\ Len(Distinct(file_index[key])) > 2


----------------------------------------------------------------------------
(* Properties of the normalization of find_correct_path *)

\* C13: each step of the normalization pipeline of find_correct_path, applied
\* to the broken link a second time, gives what it gave the first time, and
\* the normalized broken link is normalized to itself
C13_NormalizeIdempotent ==
    FalResolved =>
        /\ LStrip(LStrip(broken_link, {"/"}), {"/"}) = LStrip(broken_link, {"/"})
        /\ StripMalformed(StripMalformed(broken_link))
               = StripMalformed(broken_link)
        /\ StripMd(StripMd(broken_link)) = StripMd(broken_link)
        /\ RStrip(RStrip(broken_link, {".", "/"}), {".", "/"})
               = RStrip(broken_link, {".", "/"})
        /\ Normalize(Normalize(broken_link)) = Normalize(broken_link)


----------------------------------------------------------------------------
(* Properties of the fallbacks of find_target_path *)

\* the index has, under a trailing part of path, a document of the section,
\* or under the whole path a single candidate
IndexHolds(path, eng) ==
    \/ /\ path \in DOMAIN file_index
       /\ Len(file_index[path]) = 1
    \/ \E key \in SuffixKeys(path) :
           /\ key \in DOMAIN file_index
           /\ InHint(file_index[key], eng) # <<>>

IndexAnswers == IndexHolds(UlPath, UlIsEng)

\* path is a key of the static table
TableHolds(path) ==
    \E i \in DOMAIN CommonMappingEntries : <<CommonMappingEntries[i][1]>> = path

TableAnswers == TableHolds(UlPath)

\* /data-engineering or /data-analytics, by the section of the reference
SectionRoot == IF UlIsEng THEN <<"/", DataEngineering>> ELSE <<"/", DataAnalytics>>

\* "#" and the fragment of the reference, when it has one
FragmentSuffix ==
    IF UlSplit.hash_fragment \in {None, <<>>} THEN <<>>
    ELSE <<"#">> \o UlSplit.hash_fragment

\* the result of find_target_path when nothing_answers tells whether neither
\* the index nor the static table answers
SynthesizedWhen(nothing_answers) ==
    /\ correct_path # None
    /\ find_target_rule(broken_link, file_index, is_engineer) = "synthesis"
           <=> nothing_answers
    /\ nothing_answers =>
           correct_path = SectionRoot \o <<"/">> \o UlPath \o FragmentSuffix

----------------------------------------------------------------------------
(* Properties of the malformed extensions *)

\* fix_links_in_file ran on a document whose one link is the broken link
FixedReported ==
    /\ pc = "rewritten"
    /\ script = "fix_all_links"
    /\ Len(broken_links) = 1
    /\ prev_content = Link(broken_links[1])

MalformedExtensions ==
    {<<".", "md">>, <<".", "mdengineers">>, <<".", "mdanalysts">>}

\* p carries no malformed extension: it is a clean reference
Clean(p) ==
    /\ \A ext \in MalformedExtensions : ~EndsWith(p, ext)
    /\ ~Contains(p, <<".", "mdengineers">>)
    /\ ~Contains(p, <<".", "mdanalysts">>)

\* the reference l without its leading slashes and its last two tokens
WithoutExtension(l) == LStrip(SubSeq(l, 1, Len(l) - 2), {"/"})

\* the document as it is when its link resolves as the reference p does
LinkedTo(p) ==
    IF Truthy(find_correct_path(p, file_index))
    THEN Link(find_correct_path(p, file_index))
    ELSE prev_content

SlashTransformFilterMdengineers ==
    <<"/", "transform", "/", "filter", ".", "mdengineers">>

\* C15: a link <p>.md, <p>.mdengineers or <p>.mdanalysts, with or without
\* leading slashes, p being clean, is rewritten to the target the reference p
\* resolves to, and left alone when p does not resolve; and
\* /transform/filter.mdengineers is normalized to transform/filter and, over
\* the single document data-engineering/aaa/filter, rewritten to
\* /data-engineering/aaa/filter
C15_MalformedExtension ==
    FixedReported =>
        /\ \A ext \in MalformedExtensions :
               (/\ EndsWith(broken_links[1], ext)
                /\ Clean(WithoutExtension(broken_links[1])))
                   => content = LinkedTo(WithoutExtension(broken_links[1]))
        /\ (/\ broken_links[1] = SlashTransformFilterMdengineers
            /\ tree = << <<DataEngineering, "/", "aaa", "/", "filter">> >>)
               => /\ Normalize(broken_links[1]) = <<"transform", "/", "filter">>
                  /\ content = Link(<<"/", DataEngineering, "/", "aaa", "/", "filter">>)
                  /\ written

\* /transform/filter.mdengineers rewritten over the single document
\* data-engineering/aaa/filter
C15_Witness ==
    /\ FixedReported
    /\ broken_links[1] = SlashTransformFilterMdengineers
    /\ tree = << <<DataEngineering, "/", "aaa", "/", "filter">> >>
    /\ <<"transform", "/", "filter">> \notin DOMAIN file_index
    /\ content = Link(<<"/", DataEngineering, "/", "aaa", "/", "filter">>)


----------------------------------------------------------------------------
(* Properties of the parsers of the report *)

Parsed == pc = "parsed"

\* line i of the report is marked with the bullet
IsBulletLine(i) ==
    \E k \in DOMAIN broken_links_output[i] : broken_links_output[i][k] = Bullet

\* line i of the report ends in .mdx and is not marked with the bullet
IsDocumentLine(i) ==
    EndsWith(broken_links_output[i], Mdx) /\ ~IsBulletLine(i)

\* the most recent document line before line i, 0 when there is none
OwnerOf(i) ==
    IF \E k \in 1..(i - 1) : IsDocumentLine(k)
    THEN CHOOSE k \in 1..(i - 1) :
             IsDocumentLine(k) /\ \A m \in (k + 1)..(i - 1) : ~IsDocumentLine(m)
    ELSE 0

\* the document a bullet line is attributed to
OwnerName(i) == Strip(broken_links_output[OwnerOf(i)])

\* the bullet lines that come after a document line and carry a link
OwnedBulletLines ==
    SelectSeq([i \in DOMAIN broken_links_output |-> i],
              LAMBDA i : /\ IsBulletLine(i)
                         /\ OwnerOf(i) > 0
                         /\ LinkOfLine(broken_links_output[i]) # <<>>)

\* of those, the lines whose link a parser keeps: for parse_broken_links,
\* the lines with a legacy link
KeptBulletLines ==
    SelectSeq(OwnedBulletLines,
              LAMBDA i : script = "update_links" =>
                             IsLegacyLink(LinkOfLine(broken_links_output[i])))

\* the links of the given bullet lines that are attributed to document f
LinksUnder(bullet_lines, f) ==
    LET mine == SelectSeq(bullet_lines, LAMBDA i : OwnerName(i) = f)
    IN  [k \in DOMAIN mine |-> LinkOfLine(broken_links_output[mine[k]])]

\* the parsed report is exactly the given bullet lines, each under the
\* document it is attributed to, in the order of the report
ParsedAs(bullet_lines) ==
    /\ \A k \in DOMAIN broken_links_by_file :
           /\ broken_links_by_file[k][2]
                  = LinksUnder(bullet_lines, broken_links_by_file[k][1])
           /\ \A m \in DOMAIN broken_links_by_file :
                  broken_links_by_file[m][1] = broken_links_by_file[k][1] => m = k
    /\ \A n \in DOMAIN bullet_lines :
           \E k \in DOMAIN broken_links_by_file :
               broken_links_by_file[k][1] = OwnerName(bullet_lines[n])

\* no document of the parsed report is a bullet line
NoBulletDocument ==
    \A k \in DOMAIN broken_links_by_file :
        /\ Head(broken_links_by_file[k][1]) # Bullet
        /\ broken_links_by_file[k][2] # <<>>

\* C16 as stated: by both parsers every bullet line that carries a link is
\* recorded under the most recent document line before it, one link per
\* bullet line in the order of the report; bullet lines before the first
\* document line are dropped and no bullet line starts a document
C16_Original ==
    Parsed => ParsedAs(OwnedBulletLines) /\ NoBulletDocument

\* C16 amended: the same for parse_all_broken_links; parse_broken_links
\* records, in the same way, the bullet lines whose link is a legacy link
\* and drops the others
C16_Amended ==
    Parsed => ParsedAs(KeptBulletLines) /\ NoBulletDocument

\* a report with a bullet line before the first document line, and after it
\* a bullet line whose link ends in .mdx and another bullet line, both kept
C16_Witness ==
    /\ Parsed
    /\ Len(broken_links_output) = 4
    /\ IsBulletLine(1)
    /\ IsDocumentLine(2)
    /\ EndsWith(broken_links_output[3], Mdx)
    /\ KeptBulletLines = <<3, 4>>
    /\ Len(broken_links_by_file) = 1
    /\ Len(broken_links_by_file[1][2]) = 2


----------------------------------------------------------------------------
(* Properties of the relative legacy links *)

\* the text read was one link [t](docs/engineers/<p>) or [t](docs/analysts/<p>)
OneRelativeLink ==
    /\ Len(prev_content) > 9
    /\ SubSeq(prev_content, 1, 6) = <<"[", "t", "]", "(", "docs", "/">>
    /\ prev_content[7] \in LegacyNames
    /\ prev_content[8] = "/"
    /\ prev_content[Len(prev_content)] = ")"
    /\ \A k \in 9..(Len(prev_content) - 1) : prev_content[k] \notin {"(", ")", "[", "]"}

\* /engineers/<p> or /analysts/<p> for that link
AbsoluteForm == <<"/">> \o SubSeq(prev_content, 7, Len(prev_content) - 1)

\* C17: update_links_in_file turns a document that is one link
\* [t](docs/engineers/<p>) or [t](docs/analysts/<p>) into [t](<target>),
\* <target> being what find_target_path returns for /engineers/<p> or
\* /analysts/<p> with the section of the link as hint
C17_RelativeLinks ==
    (pc = "rewritten" /\ script = "update_links" /\ OneRelativeLink) =>
        content = Link(find_target_path(AbsoluteForm, file_index,
                                        prev_content[7] = "engineers"))


----------------------------------------------------------------------------
(* Properties of the static table of find_target_path *)

\* the result of find_target_path when table_answers tells whether the index
\* does not answer and the static table does
WithinSectionWhen(table_answers) ==
    /\ find_target_rule(broken_link, file_index, is_engineer) = "table"
           <=> table_answers
    /\ table_answers => StartsWith(correct_path, SectionRoot)

\* C18: the result of find_target_path comes from the static table exactly
\* when the index does not answer and the reference's path is a key of the
\* table, and it then starts with the root of the reference's section
C18_TableWithinSection ==
    UlResolved => WithinSectionWhen(~IndexAnswers /\ TableAnswers)

----------------------------------------------------------------------------
(* Properties of the rules of find_correct_path *)

\* the documents of the tree whose filename is the final segment of the
\* normalized reference
NamedLikeReference ==
    {tree[i] : i \in {k \in DOMAIN tree : HasKey(tree[k], FalFilename)}}

\* C19: over the index build_file_index built, find_correct_path returns a
\* path exactly when the final segment of the normalized reference is a key
\* of the index; the path is "/" and a candidate of that key, a document of
\* the tree with that filename; and the result is never the exact-path
\* rule's or the suffix rule's
C19_FilenameRuleDecides ==
    FalResolved =>
        /\ correct_path # None <=> FalFilename \in DOMAIN file_index
        /\ correct_path # None =>
               /\ \E k \in DOMAIN file_index[FalFilename] :
                      correct_path = <<"/">> \o file_index[FalFilename][k]
               /\ Tail(correct_path) \in NamedLikeReference
        /\ find_correct_rule(broken_link, file_index) \in {"filename", "none"}

\* a reference whose normalized path is itself a key of the index, resolved
\* to another document than the first candidate of that key
C19_Witness ==
    /\ FalResolved
    /\ Len(FalParts) > 1
    /\ FalPath \in DOMAIN file_index
    /\ correct_path # None
    /\ correct_path # <<"/">> \o file_index[FalPath][1]

============================================================================
